---- MODULE Spec2Model ----
(***************************************************************************)
(* Model of kuccps_dashboard.py: the ingestion of an uploaded table, the   *)
(* keyword classifier of programme names, the sidebar filters and the      *)
(* application-day filter, as one run of the script from top to bottom.    *)
(*                                                                         *)
(* Text is modelled as a sequence of one-character strings, so that        *)
(* str(), lower(), the substring test `k in name` and the regular          *)
(* expression (\d+) are computed character by character as Python does.    *)
(* A cell of the table is a tagged value: Null (NaN), Str, Int, Float,     *)
(* Bool or Date.                                                           *)
(***************************************************************************)
EXTENDS Integers, Sequences, FiniteSets, TLC

VARIABLES
    pc,             \* position of the run
    arg,            \* argument of a direct call of a helper
    ret,            \* its return value
    uploaded_file,  \* the uploaded table: ext, columns, rows
    df,             \* the Dataset (a sequence of rows)
    columns,        \* df.columns
    selection,      \* the values picked in each sidebar multiselect
    filtered_df,    \* the filtered view
    selected_days,  \* the (min, max) pair of the day slider, or <<>>
    locals,         \* the names among df, filtered_df that the run has bound
    rendered,       \* what the section evaluated last has put on the page
    kpis            \* the variables of the summary KPIs (total_students, ...)

vars == <<pc, arg, ret, uploaded_file, df, columns, selection, filtered_df, selected_days,
          locals, rendered, kpis>>

----------------------------------------------------------------------------
(* Bounds of the model.                                                    *)

\* words in a generated programme name
MaxWords == 2
\* largest magnitude of a numeric programme_name cell
MaxNum == 11
\* characters in a generated application_day cell
MaxCellLen == 4
\* rows of a generated uploaded table
MaxRows == 3

----------------------------------------------------------------------------
(* Cells.                                                                  *)

Null == [t |-> "null"]
Str(s) == [t |-> "str", v |-> s]
IntV(n) == [t |-> "int", v |-> n]
FloatV(n, d) == [t |-> "float", v |-> <<n, d>>]
BoolV(b) == [t |-> "bool", v |-> b]
\* a date without time of day, v its text "YYYY-MM-DD"
DateV(d) == [t |-> "date", v |-> d]

\* pd.isna on a scalar
isna(x) == x.t = "null"

----------------------------------------------------------------------------
(* Python text operations.                                                 *)

UpperChars == <<"A","B","C","D","E","F","G","H","I","J","K","L","M","N","O","P","Q","R","S","T","U","V","W","X","Y","Z">>
LowerChars == <<"a","b","c","d","e","f","g","h","i","j","k","l","m","n","o","p","q","r","s","t","u","v","w","x","y","z">>
DigitChars == <<"0","1","2","3","4","5","6","7","8","9">>

lower_char(c) ==
    IF \E i \in 1..Len(UpperChars) : UpperChars[i] = c
    THEN LowerChars[CHOOSE i \in 1..Len(UpperChars) : UpperChars[i] = c]
    ELSE c

\* str.lower()
lower(s) == [i \in 1..Len(s) |-> lower_char(s[i])]

\* the decimal digits of a natural number
RECURSIVE digits_of(_)
digits_of(n) ==
    IF n < 10 THEN <<DigitChars[n + 1]>>
    ELSE digits_of(n \div 10) \o <<DigitChars[(n % 10) + 1]>>

\* str(x) of a scalar cell (a NaN prints as "nan")
str(x) ==
    CASE x.t = "str" -> x.v
      [] x.t = "int" -> IF x.v < 0 THEN <<"-">> \o digits_of(0 - x.v) ELSE digits_of(x.v)
      [] x.t = "float" -> digits_of(x.v[1]) \o <<".">> \o digits_of(x.v[2])
      [] x.t = "bool" -> IF x.v THEN <<"T","r","u","e">> ELSE <<"F","a","l","s","e">>
      [] x.t = "null" -> <<"n","a","n">>
      [] x.t = "date" -> x.v \o <<" ","0","0",":","0","0",":","0","0">>

\* k in name (substring test)
contains(name, k) ==
    \E i \in 0..(Len(name) - Len(k)) : SubSeq(name, i + 1, i + Len(k)) = k

----------------------------------------------------------------------------
(* The taxonomy of categorize_programme, in declared order.                *)

mapping ==
  <<
    \* line 89: Health Sciences
    [ keywords |-> <<
        <<"n","u","r","s","i","n","g">>,
        <<"m","e","d","i","c","i","n","e">>,
        <<"s","u","r","g","e","r","y">>,
        <<"c","l","i","n","i","c","a","l">>,
        <<"p","h","y","s","i","o","t","h","e","r","a","p","y">>,
        <<"p","h","a","r","m","a","c","y">>,
        <<"d","e","n","t","a","l">>,
        <<"p","u","b","l","i","c"," ","h","e","a","l","t","h">>,
        <<"m","e","d","i","c","a","l">>,
        <<"n","u","t","r","i","t","i","o","n">>,
        <<"b","i","o","m","e","d","i","c","a","l">>,
        <<"a","n","a","t","o","m","y">>,
        <<"p","h","y","s","i","o","l","o","g","y">>,
        <<"r","a","d","i","o","l","o","g","y">>,
        <<"m","i","d","w","i","f","e","r","y">>
      >>,
      dept |-> <<"H","e","a","l","t","h"," ","S","c","i","e","n","c","e","s">> ],
    \* line 90: Engineering
    [ keywords |-> <<
        <<"e","n","g","i","n","e","e","r","i","n","g">>,
        <<"c","i","v","i","l">>,
        <<"m","e","c","h","a","n","i","c","a","l">>,
        <<"e","l","e","c","t","r","i","c","a","l">>,
        <<"m","e","c","h","a","t","r","o","n","i","c">>,
        <<"t","e","l","e","c","o","m">>,
        <<"a","u","t","o","m","o","t","i","v","e">>,
        <<"c","h","e","m","i","c","a","l">>,
        <<"m","i","n","i","n","g">>,
        <<"m","a","n","u","f","a","c","t","u","r","i","n","g">>,
        <<"i","n","d","u","s","t","r","i","a","l">>,
        <<"a","e","r","o","s","p","a","c","e">>,
        <<"p","e","t","r","o","l","e","u","m">>,
        <<"e","n","e","r","g","y">>,
        <<"e","n","v","i","r","o","n","m","e","n","t","a","l"," ","e","n","g","i","n","e","e","r","i","n","g">>
      >>,
      dept |-> <<"E","n","g","i","n","e","e","r","i","n","g">> ],
    \* line 91: ICT / Tech
    [ keywords |-> <<
        <<"c","o","m","p","u","t","e","r">>,
        <<"i","c","t">>,
        <<"i","n","f","o","r","m","a","t","i","o","n"," ","t","e","c","h","n","o","l","o","g","y">>,
        <<"c","l","o","u","d">>,
        <<"s","o","f","t","w","a","r","e">>,
        <<"d","a","t","a"," ","s","c","i","e","n","c","e">>,
        <<"a","i">>,
        <<"c","y","b","e","r">>,
        <<"i","n","f","o","r","m","a","t","i","c","s">>,
        <<"i","t">>,
        <<"c","o","m","p","u","t","i","n","g">>,
        <<"m","a","c","h","i","n","e"," ","l","e","a","r","n","i","n","g">>,
        <<"r","o","b","o","t","i","c","s">>,
        <<"n","e","t","w","o","r","k">>
      >>,
      dept |-> <<"I","C","T"," ","/"," ","T","e","c","h">> ],
    \* line 92: Business
    [ keywords |-> <<
        <<"c","o","m","m","e","r","c","e">>,
        <<"b","u","s","i","n","e","s","s">>,
        <<"a","c","c","o","u","n","t","i","n","g">>,
        <<"p","r","o","c","u","r","e","m","e","n","t">>,
        <<"f","i","n","a","n","c","e">>,
        <<"m","a","r","k","e","t","i","n","g">>,
        <<"m","a","n","a","g","e","m","e","n","t">>,
        <<"e","n","t","r","e","p","r","e","n","e","u","r","s","h","i","p">>,
        <<"e","c","o","n","o","m","i","c","s">>,
        <<"h","u","m","a","n"," ","r","e","s","o","u","r","c","e">>,
        <<"i","n","s","u","r","a","n","c","e">>,
        <<"b","a","n","k","i","n","g">>,
        <<"a","u","d","i","t">>,
        <<"s","u","p","p","l","y"," ","c","h","a","i","n">>
      >>,
      dept |-> <<"B","u","s","i","n","e","s","s">> ],
    \* line 93: Law & Humanities
    [ keywords |-> <<
        <<"l","a","w">>,
        <<"c","r","i","m","i","n","o","l","o","g","y">>,
        <<"j","u","s","t","i","c","e">>,
        <<"l","e","g","a","l">>,
        <<"f","o","r","e","n","s","i","c">>
      >>,
      dept |-> <<"L","a","w"," ","&"," ","H","u","m","a","n","i","t","i","e","s">> ],
    \* line 94: Education
    [ keywords |-> <<
        <<"e","d","u","c","a","t","i","o","n">>,
        <<"t","e","a","c","h","i","n","g">>,
        <<"p","e","d","a","g","o","g","y">>,
        <<"c","u","r","r","i","c","u","l","u","m">>,
        <<"t","e","a","c","h","e","r">>,
        <<"i","n","s","t","r","u","c","t","i","o","n","a","l">>,
        <<"e","d","u","c","a","t","i","o","n","a","l">>
      >>,
      dept |-> <<"E","d","u","c","a","t","i","o","n">> ],
    \* line 95: Agriculture
    [ keywords |-> <<
        <<"a","g","r","i","c">>,
        <<"h","o","r","t","i","c","u","l","t","u","r","e">>,
        <<"a","n","i","m","a","l">>,
        <<"c","r","o","p">>,
        <<"f","o","o","d"," ","s","c","i","e","n","c","e">>,
        <<"a","g","r","i","b","u","s","i","n","e","s","s">>,
        <<"s","o","i","l">>,
        <<"d","a","i","r","y">>,
        <<"v","e","t","e","r","i","n","a","r","y">>,
        <<"f","o","r","e","s","t","r","y">>,
        <<"f","i","s","h","e","r","i","e","s">>,
        <<"p","l","a","n","t">>,
        <<"a","g","r","o","n","o","m","y">>
      >>,
      dept |-> <<"A","g","r","i","c","u","l","t","u","r","e">> ],
    \* line 96: Hospitality & Tourism
    [ keywords |-> <<
        <<"t","o","u","r","i","s","m">>,
        <<"h","o","s","p","i","t","a","l","i","t","y">>,
        <<"h","o","t","e","l">>,
        <<"l","e","i","s","u","r","e">>,
        <<"t","r","a","v","e","l">>,
        <<"e","v","e","n","t"," ","m","a","n","a","g","e","m","e","n","t">>,
        <<"c","u","l","i","n","a","r","y">>
      >>,
      dept |-> <<"H","o","s","p","i","t","a","l","i","t","y"," ","&"," ","T","o","u","r","i","s","m">> ],
    \* line 97: Architecture & Planning
    [ keywords |-> <<
        <<"a","r","c","h","i","t","e","c","t","u","r","e">>,
        <<"p","l","a","n","n","i","n","g">>,
        <<"u","r","b","a","n">>,
        <<"l","a","n","d","s","c","a","p","e">>,
        <<"b","u","i","l","t"," ","e","n","v","i","r","o","n","m","e","n","t">>,
        <<"c","o","n","s","t","r","u","c","t","i","o","n">>,
        <<"q","u","a","n","t","i","t","y"," ","s","u","r","v","e","y">>,
        <<"i","n","t","e","r","i","o","r"," ","d","e","s","i","g","n">>
      >>,
      dept |-> <<"A","r","c","h","i","t","e","c","t","u","r","e"," ","&"," ","P","l","a","n","n","i","n","g">> ],
    \* line 98: Math & Statistics
    [ keywords |-> <<
        <<"s","t","a","t","i","s","t","i","c","s">>,
        <<"m","a","t","h","e","m","a","t","i","c","s">>,
        <<"m","a","t","h">>,
        <<"a","c","t","u","a","r","i","a","l">>,
        <<"q","u","a","n","t","i","t","a","t","i","v","e">>,
        <<"a","p","p","l","i","e","d"," ","m","a","t","h">>,
        <<"s","t","a","t","i","s","t","i","c","a","l">>
      >>,
      dept |-> <<"M","a","t","h"," ","&"," ","S","t","a","t","i","s","t","i","c","s">> ],
    \* line 99: Pure & Applied Sciences
    [ keywords |-> <<
        <<"s","c","i","e","n","c","e">>,
        <<"b","i","o","l","o","g","y">>,
        <<"c","h","e","m","i","s","t","r","y">>,
        <<"p","h","y","s","i","c","s">>,
        <<"b","i","o","c","h","e","m","i","s","t","r","y">>,
        <<"m","i","c","r","o","b","i","o","l","o","g","y">>,
        <<"z","o","o","l","o","g","y">>,
        <<"b","o","t","a","n","y">>,
        <<"g","e","o","l","o","g","y">>,
        <<"e","n","v","i","r","o","n","m","e","n","t","a","l">>,
        <<"e","c","o","l","o","g","y">>,
        <<"g","e","n","e","t","i","c","s">>,
        <<"a","s","t","r","o","n","o","m","y">>,
        <<"m","a","r","i","n","e"," ","s","c","i","e","n","c","e">>
      >>,
      dept |-> <<"P","u","r","e"," ","&"," ","A","p","p","l","i","e","d"," ","S","c","i","e","n","c","e","s">> ],
    \* line 100: Arts & Humanities
    [ keywords |-> <<
        <<"a","r","t","s">>,
        <<"m","u","s","i","c">>,
        <<"f","i","n","e"," ","a","r","t">>,
        <<"d","e","s","i","g","n">>,
        <<"d","r","a","m","a">>,
        <<"t","h","e","a","t","r","e">>,
        <<"l","i","t","e","r","a","t","u","r","e">>,
        <<"p","h","i","l","o","s","o","p","h","y">>,
        <<"h","i","s","t","o","r","y">>,
        <<"l","a","n","g","u","a","g","e">>,
        <<"l","i","n","g","u","i","s","t","i","c","s">>,
        <<"c","o","m","m","u","n","i","c","a","t","i","o","n">>,
        <<"m","e","d","i","a">>,
        <<"f","i","l","m">>,
        <<"a","n","i","m","a","t","i","o","n">>,
        <<"c","r","e","a","t","i","v","e">>
      >>,
      dept |-> <<"A","r","t","s"," ","&"," ","H","u","m","a","n","i","t","i","e","s">> ],
    \* line 101: Social Sciences
    [ keywords |-> <<
        <<"s","o","c","i","a","l"," ","w","o","r","k">>,
        <<"s","o","c","i","o","l","o","g","y">>,
        <<"p","s","y","c","h","o","l","o","g","y">>,
        <<"c","o","m","m","u","n","i","t","y">>,
        <<"d","e","v","e","l","o","p","m","e","n","t">>,
        <<"a","n","t","h","r","o","p","o","l","o","g","y">>,
        <<"c","o","u","n","s","e","l","i","n","g">>,
        <<"p","u","b","l","i","c"," ","a","d","m","i","n","i","s","t","r","a","t","i","o","n">>,
        <<"i","n","t","e","r","n","a","t","i","o","n","a","l"," ","r","e","l","a","t","i","o","n","s">>,
        <<"p","o","l","i","t","i","c","a","l"," ","s","c","i","e","n","c","e">>
      >>,
      dept |-> <<"S","o","c","i","a","l"," ","S","c","i","e","n","c","e","s">> ],
    \* line 102: Sports & Recreation
    [ keywords |-> <<
        <<"s","p","o","r","t","s">>,
        <<"p","h","y","s","i","c","a","l"," ","e","d","u","c","a","t","i","o","n">>,
        <<"r","e","c","r","e","a","t","i","o","n">>,
        <<"e","x","e","r","c","i","s","e">>,
        <<"f","i","t","n","e","s","s">>,
        <<"s","p","o","r","t">>
      >>,
      dept |-> <<"S","p","o","r","t","s"," ","&"," ","R","e","c","r","e","a","t","i","o","n">> ],
    \* line 103: Aviation
    [ keywords |-> <<
        <<"a","v","i","a","t","i","o","n">>,
        <<"a","e","r","o","n","a","u","t","i","c","a","l">>,
        <<"p","i","l","o","t">>,
        <<"a","i","r","c","r","a","f","t">>,
        <<"f","l","i","g","h","t">>
      >>,
      dept |-> <<"A","v","i","a","t","i","o","n">> ],
    \* line 104: Marine & Fisheries
    [ keywords |-> <<
        <<"m","a","r","i","n","e">>,
        <<"m","a","r","i","t","i","m","e">>,
        <<"o","c","e","a","n">>,
        <<"f","i","s","h","e","r","i","e","s">>,
        <<"a","q","u","a","t","i","c">>,
        <<"n","a","v","a","l">>
      >>,
      dept |-> <<"M","a","r","i","n","e"," ","&"," ","F","i","s","h","e","r","i","e","s">> ],
    \* line 105: Library & Information Science
    [ keywords |-> <<
        <<"l","i","b","r","a","r","y">>,
        <<"r","e","c","o","r","d","s">>,
        <<"i","n","f","o","r","m","a","t","i","o","n"," ","s","c","i","e","n","c","e">>,
        <<"a","r","c","h","i","v","a","l">>,
        <<"d","o","c","u","m","e","n","t","a","t","i","o","n">>
      >>,
      dept |-> <<"L","i","b","r","a","r","y"," ","&"," ","I","n","f","o","r","m","a","t","i","o","n"," ","S","c","i","e","n","c","e">> ],
    \* line 106: Logistics & Transport
    [ keywords |-> <<
        <<"l","o","g","i","s","t","i","c","s">>,
        <<"s","u","p","p","l","y"," ","c","h","a","i","n">>,
        <<"t","r","a","n","s","p","o","r","t">>,
        <<"s","h","i","p","p","i","n","g">>,
        <<"f","r","e","i","g","h","t">>,
        <<"w","a","r","e","h","o","u","s","i","n","g">>
      >>,
      dept |-> <<"L","o","g","i","s","t","i","c","s"," ","&"," ","T","r","a","n","s","p","o","r","t">> ],
    \* line 107: Fashion & Textile
    [ keywords |-> <<
        <<"f","a","s","h","i","o","n">>,
        <<"t","e","x","t","i","l","e">>,
        <<"g","a","r","m","e","n","t">>,
        <<"a","p","p","a","r","e","l">>,
        <<"c","l","o","t","h","i","n","g">>,
        <<"c","o","s","t","u","m","e">>
      >>,
      dept |-> <<"F","a","s","h","i","o","n"," ","&"," ","T","e","x","t","i","l","e">> ],
    \* line 108: Media & Communication
    [ keywords |-> <<
        <<"j","o","u","r","n","a","l","i","s","m">>,
        <<"m","a","s","s"," ","c","o","m","m","u","n","i","c","a","t","i","o","n">>,
        <<"b","r","o","a","d","c","a","s","t">>,
        <<"p","u","b","l","i","c"," ","r","e","l","a","t","i","o","n","s">>,
        <<"m","e","d","i","a"," ","s","t","u","d","i","e","s">>
      >>,
      dept |-> <<"M","e","d","i","a"," ","&"," ","C","o","m","m","u","n","i","c","a","t","i","o","n">> ],
    \* line 109: Real Estate & Land Management
    [ keywords |-> <<
        <<"r","e","a","l"," ","e","s","t","a","t","e">>,
        <<"p","r","o","p","e","r","t","y">>,
        <<"l","a","n","d"," ","m","a","n","a","g","e","m","e","n","t">>,
        <<"v","a","l","u","a","t","i","o","n">>
      >>,
      dept |-> <<"R","e","a","l"," ","E","s","t","a","t","e"," ","&"," ","L","a","n","d"," ","M","a","n","a","g","e","m","e","n","t">> ],
    \* line 110: Security & Defense
    [ keywords |-> <<
        <<"m","i","l","i","t","a","r","y">>,
        <<"d","e","f","e","n","s","e">>,
        <<"s","e","c","u","r","i","t","y">>,
        <<"p","e","a","c","e"," ","s","t","u","d","i","e","s">>
      >>,
      dept |-> <<"S","e","c","u","r","i","t","y"," ","&"," ","D","e","f","e","n","s","e">> ],
    \* line 111: Environmental Studies
    [ keywords |-> <<
        <<"e","n","v","i","r","o","n","m","e","n","t">>,
        <<"c","o","n","s","e","r","v","a","t","i","o","n">>,
        <<"s","u","s","t","a","i","n","a","b","i","l","i","t","y">>,
        <<"c","l","i","m","a","t","e">>
      >>,
      dept |-> <<"E","n","v","i","r","o","n","m","e","n","t","a","l"," ","S","t","u","d","i","e","s">> ],
    \* line 112: Food & Nutrition
    [ keywords |-> <<
        <<"f","o","o","d">>,
        <<"n","u","t","r","i","t","i","o","n">>,
        <<"d","i","e","t","e","t","i","c","s">>,
        <<"c","u","l","i","n","a","r","y">>
      >>,
      dept |-> <<"F","o","o","d"," ","&"," ","N","u","t","r","i","t","i","o","n">> ]
  >>

Other == <<"O","t","h","e","r">>

\* the department labels of the taxonomy
Labels == {mapping[i].dept : i \in 1..Len(mapping)}

\* any(k in name for k in keywords)
any_keyword(name, keywords) ==
    \E j \in 1..Len(keywords) : contains(name, keywords[j])

\* for keywords, dept in mapping: ... return dept; return "Other"
RECURSIVE scan_mapping(_, _)
scan_mapping(name, i) ==
    IF i > Len(mapping) THEN Str(Other)
    ELSE IF any_keyword(name, mapping[i].keywords) THEN Str(mapping[i].dept)
    ELSE scan_mapping(name, i + 1)

\* variant: the pairs are tried from the last to the first
RECURSIVE scan_mapping_backwards(_, _)
scan_mapping_backwards(name, i) ==
    IF i < 1 THEN Str(Other)
    ELSE IF any_keyword(name, mapping[i].keywords) THEN Str(mapping[i].dept)
    ELSE scan_mapping_backwards(name, i - 1)

categorize_programme_last_match(programme_name) ==
    IF isna(programme_name) THEN Str(Other)
    ELSE scan_mapping_backwards(lower(str(programme_name)), Len(mapping))

\* variant: the final `return "Other"` is missing, so that None is returned
RECURSIVE scan_mapping_no_default(_, _)
scan_mapping_no_default(name, i) ==
    IF i > Len(mapping) THEN Null
    ELSE IF any_keyword(name, mapping[i].keywords) THEN Str(mapping[i].dept)
    ELSE scan_mapping_no_default(name, i + 1)

categorize_programme_no_default(programme_name) ==
    IF isna(programme_name) THEN Str(Other)
    ELSE scan_mapping_no_default(lower(str(programme_name)), 1)

categorize_programme(programme_name) ==
    IF isna(programme_name) THEN Str(Other)
    ELSE scan_mapping(lower(str(programme_name)), 1)

----------------------------------------------------------------------------
(* The parsing of application_day: astype(str), str.extract(r'(\d+)'),     *)
(* astype(float), then Int64.                                              *)

is_digit(c) == \E i \in 1..Len(DigitChars) : DigitChars[i] = c

digit_value(c) == (CHOOSE i \in 1..Len(DigitChars) : DigitChars[i] = c) - 1

\* \d+ matched greedily from position i (a digit): the position of its last digit
RECURSIVE match_end(_, _)
match_end(s, i) ==
    IF i + 1 <= Len(s) /\ is_digit(s[i + 1]) THEN match_end(s, i + 1) ELSE i

\* the search of (\d+) from position i on: the first match, <<>> when none
RECURSIVE extract_from(_, _)
extract_from(s, i) ==
    IF i > Len(s) THEN <<>>
    ELSE IF is_digit(s[i]) THEN SubSeq(s, i, match_end(s, i))
    ELSE extract_from(s, i + 1)

\* variant: the pattern is (\d), one digit
RECURSIVE extract_one_digit_from(_, _)
extract_one_digit_from(s, i) ==
    IF i > Len(s) THEN <<>>
    ELSE IF is_digit(s[i]) THEN <<s[i]>>
    ELSE extract_one_digit_from(s, i + 1)

extract_one_digit(s) == extract_one_digit_from(s, 1)

\* str.extract(r'(\d+)') on one string
extract(s) == extract_from(s, 1)

\* the number written by a string of digits, read left to right
RECURSIVE to_number(_, _)
to_number(ds, acc) ==
    IF Len(ds) = 0 THEN acc
    ELSE to_number(Tail(ds), acc * 10 + digit_value(Head(ds)))

\* one cell of the column after lines 161-169: a whole number or <NA>
parse_application_day(cell) ==
    IF extract(str(cell)) = <<>> THEN Null
    ELSE IntV(to_number(extract(str(cell)), 0))

----------------------------------------------------------------------------
(* Tables: a table is a sequence of rows, a row a function from the        *)
(* column names to cells.                                                  *)

\* d[mask]: the rows of d whose mask entry is True, in the order of d
RECURSIVE boolean_index(_, _, _)
boolean_index(d, mask, i) ==
    IF i > Len(d) THEN <<>>
    ELSE (IF mask[i] THEN <<d[i]>> ELSE <<>>) \o boolean_index(d, mask, i + 1)

\* lines 160-169: the application_day column parsed, when there is one
parse_day_column(cols, rows) ==
    IF "application_day" \in cols
    THEN [i \in 1..Len(rows) |->
            [rows[i] EXCEPT !["application_day"] = parse_application_day(@)]]
    ELSE rows

\* variant: a name without keyword gets the label of the call before it
add_department_carried(cols, rows) ==
    [i \in 1..Len(rows) |->
        [c \in cols \cup {"department"} |->
            IF c = "department"
            THEN (IF "programme_name" \in cols
                  THEN (IF i > 1 /\ categorize_programme(rows[i]["programme_name"]) = Str(Other)
                        THEN categorize_programme(rows[i - 1]["programme_name"])
                        ELSE categorize_programme(rows[i]["programme_name"]))
                  ELSE Str(Other))
            ELSE rows[i][c]]]

\* lines 172-175: the department column derived from programme_name
add_department(cols, rows) ==
    [i \in 1..Len(rows) |->
        [c \in cols \cup {"department"} |->
            IF c = "department"
            THEN (IF "programme_name" \in cols
                  THEN categorize_programme(rows[i]["programme_name"])
                  ELSE Str(Other))
            ELSE rows[i][c]]]

\* DataFrame.duplicated(keep="first"): True for a row equal to an earlier one
duplicated(rows) ==
    [i \in 1..Len(rows) |-> \E j \in 1..(i - 1) : rows[j] = rows[i]]

\* variant: keep="last", True for a row equal to a later one
duplicated_keep_last(rows) ==
    [i \in 1..Len(rows) |-> \E j \in (i + 1)..Len(rows) : rows[j] = rows[i]]

drop_duplicates_keep_last(rows) ==
    boolean_index(rows, [i \in 1..Len(rows) |-> ~duplicated_keep_last(rows)[i]], 1)

\* line 178: df.drop_duplicates()
drop_duplicates(rows) ==
    boolean_index(rows, [i \in 1..Len(rows) |-> ~duplicated(rows)[i]], 1)

----------------------------------------------------------------------------
(* The sidebar filters.                                                    *)

\* the fields with a sidebar multiselect, in the order of lines 231-246
FilterFields ==
    <<"institution_sponsor_id", "application_stage_id", "programme_type_id",
      "programme_name", "institution_name", "mean_grade_id",
      "placement_cycle_id", "department">>

FilterFieldSet == {FilterFields[i] : i \in 1..Len(FilterFields)}

\* line 199: the stringified distinct non-null values of a column
options(d, col) ==
    {str(d[i][col]) : i \in {j \in 1..Len(d) : ~isna(d[j][col])}}

\* the position of c in the sequence cs, 0 when c is not in it
index_in(cs, c) ==
    IF \E i \in 1..Len(cs) : cs[i] = c
    THEN CHOOSE i \in 1..Len(cs) : cs[i] = c
    ELSE 0

\* ord(c) of an ASCII letter, digit or one of the listed marks
ord(c) ==
    CASE index_in(DigitChars, c) > 0 -> 47 + index_in(DigitChars, c)
      [] index_in(UpperChars, c) > 0 -> 64 + index_in(UpperChars, c)
      [] index_in(LowerChars, c) > 0 -> 96 + index_in(LowerChars, c)
      [] c = " " -> 32
      [] c = "&" -> 38
      [] c = "(" -> 40
      [] c = ")" -> 41
      [] c = "," -> 44
      [] c = "-" -> 45
      [] c = "." -> 46
      [] c = "/" -> 47
      [] c = ":" -> 58
      [] c = "_" -> 95

\* a < b for two Python strings: code point by code point, a proper
\* prefix first
RECURSIVE str_lt(_, _)
str_lt(a, b) ==
    IF Len(b) = 0 THEN FALSE
    ELSE IF Len(a) = 0 THEN TRUE
    ELSE IF ord(a[1]) # ord(b[1]) THEN ord(a[1]) < ord(b[1])
    ELSE str_lt(Tail(a), Tail(b))

\* the list l with x put before the first element greater than x
RECURSIVE insort(_, _)
insort(l, x) ==
    IF Len(l) = 0 THEN <<x>>
    ELSE IF str_lt(x, l[1]) THEN <<x>> \o l
    ELSE <<l[1]>> \o insort(Tail(l), x)

\* sorted(l) of a list of strings: ascending, equal strings all kept
RECURSIVE sorted(_)
sorted(l) ==
    IF Len(l) = 0 THEN <<>>
    ELSE insort(sorted(SubSeq(l, 1, Len(l) - 1)), l[Len(l)])

\* Series.dropna().unique(): the distinct non-null values in the order of
\* their first appearance
RECURSIVE unique(_)
unique(cells) ==
    IF Len(cells) = 0 THEN <<>>
    ELSE LET before == unique(SubSeq(cells, 1, Len(cells) - 1))
             x == cells[Len(cells)]
         IN  IF isna(x) \/ (\E i \in 1..Len(before) : before[i] = x)
             THEN before
             ELSE Append(before, x)

\* line 199: options = sorted([str(x) for x in df[col].dropna().unique()])
sorted_options(d, col) ==
    LET u == unique([i \in 1..Len(d) |-> d[i][col]])
    IN  sorted([i \in 1..Len(u) |-> str(u[i])])

\* lines 196-202: the options the multiselect of a column offers, [] when
\* the column is not in the table
multiselect_options(d, cols, col) ==
    IF col \in cols THEN sorted_options(d, col) ELSE <<>>

\* lines 196-202: what the multiselect of a column can return
sidebar_multiselect(d, cols, col) ==
    IF col \in cols THEN SUBSET options(d, col) ELSE {{}}

\* lines 204-228: default_all is True except for the programme and the
\* institution names
default_all(col) == col \notin {"programme_name", "institution_name"}

\* line 200: default = options if default_all else [], for each multiselect
default_selection(d, cols) ==
    [f \in FilterFieldSet |->
        IF f \in cols /\ default_all(f) THEN options(d, f) ELSE {}]

\* the dtype of the column is datetime64: all its present cells are dates
is_datetime64(d, col) ==
    /\ \E i \in 1..Len(d) : ~isna(d[i][col])
    /\ \A i \in 1..Len(d) : isna(d[i][col]) \/ d[i][col].t = "date"

\* df[col].astype(str): str(x) of each cell of an object or numeric column;
\* a datetime64 column whose times are all midnight is written as dates
astype_str(d, col) ==
    [i \in 1..Len(d) |->
        IF is_datetime64(d, col)
        THEN (IF isna(d[i][col]) THEN <<"N","a","T">> ELSE d[i][col].v)
        ELSE str(d[i][col])]

\* df[col].astype(str).isin(selected)
isin_condition(d, col, selected) ==
    [i \in 1..Len(d) |-> astype_str(d, col)[i] \in selected]

\* variant: a condition is appended for every column of the table, picked or not
RECURSIVE filter_conditions_unguarded(_, _, _)
filter_conditions_unguarded(d, sel, k) ==
    IF k > Len(FilterFields) THEN <<>>
    ELSE (IF Len(d) > 0 /\ FilterFields[k] \in DOMAIN d[1]
          THEN <<isin_condition(d, FilterFields[k], sel[FilterFields[k]])>>
          ELSE <<>>)
         \o filter_conditions_unguarded(d, sel, k + 1)

\* lines 230-246: one condition for each field with a non-empty selection
RECURSIVE filter_conditions(_, _, _)
filter_conditions(d, sel, k) ==
    IF k > Len(FilterFields) THEN <<>>
    ELSE (IF sel[FilterFields[k]] # {}
          THEN <<isin_condition(d, FilterFields[k], sel[FilterFields[k]])>>
          ELSE <<>>)
         \o filter_conditions(d, sel, k + 1)

\* operator.and_ / operator.or_ on two boolean columns
and_(a, b) == [i \in DOMAIN a |-> a[i] /\ b[i]]
or_(a, b) == [i \in DOMAIN a |-> a[i] \/ b[i]]

\* variant: reduce(operator.or_, conditions)
RECURSIVE reduce_or(_)
reduce_or(conds) ==
    IF Len(conds) = 1 THEN conds[1]
    ELSE reduce_or(<<or_(conds[1], conds[2])>> \o SubSeq(conds, 3, Len(conds)))

\* reduce(operator.and_, conditions), conditions not empty
RECURSIVE reduce_and(_)
reduce_and(conds) ==
    IF Len(conds) = 1 THEN conds[1]
    ELSE reduce_and(<<and_(conds[1], conds[2])>> \o SubSeq(conds, 3, Len(conds)))

\* lines 248-251: the view for the picked values
apply_filters(d, sel) ==
    IF Len(filter_conditions(d, sel, 1)) > 0
    THEN boolean_index(d, reduce_and(filter_conditions(d, sel, 1)), 1)
    ELSE d

----------------------------------------------------------------------------
(* The application-day filter.                                             *)

\* the non-null values of application_day
day_values(d) ==
    {d[i]["application_day"].v : i \in {j \in 1..Len(d) : ~isna(d[j]["application_day"])}}

\* line 579: the column is there and not all of it is missing
has_valid_days(d, cols) ==
    "application_day" \in cols /\ day_values(d) # {}

Min(S) == CHOOSE x \in S : \A y \in S : x <= y
Max(S) == CHOOSE x \in S : \A y \in S : x >= y

\* variant: the upper end of the range is excluded
day_filter_exclusive(d, lo, hi) ==
    boolean_index(d,
        [i \in 1..Len(d) |->
            /\ ~isna(d[i]["application_day"])
            /\ d[i]["application_day"].v >= lo
            /\ d[i]["application_day"].v < hi], 1)

\* lines 607-610: a comparison with a missing day is not True
day_filter(d, lo, hi) ==
    boolean_index(d,
        [i \in 1..Len(d) |->
            /\ ~isna(d[i]["application_day"])
            /\ d[i]["application_day"].v >= lo
            /\ d[i]["application_day"].v <= hi], 1)

----------------------------------------------------------------------------
(* Grouped counts.  A table of counts is a sequence of rows, each with a   *)
(* key (the tuple of the grouping cells) and a count.                      *)

\* x < y for two present cells of one column: text by code points,
\* numbers by value
cell_lt(x, y) ==
    IF x.t = "str" THEN str_lt(x.v, y.v) ELSE x.v < y.v

\* a < b for two keys of the same length, first cell first
RECURSIVE key_lt(_, _)
key_lt(a, b) ==
    IF Len(a) = 0 THEN FALSE
    ELSE IF a[1] # b[1] THEN cell_lt(a[1], b[1])
    ELSE key_lt(Tail(a), Tail(b))

\* the keys of groupby(keys): a row with a missing grouping cell is in no group
group_keys(d, keys) ==
    {[k \in 1..Len(keys) |-> d[i][keys[k]]] :
        i \in {j \in 1..Len(d) : \A k \in 1..Len(keys) : ~isna(d[j][keys[k]])}}

\* groupby sorts the groups by their key
RECURSIVE sort_keys(_)
sort_keys(S) ==
    IF S = {} THEN <<>>
    ELSE LET m == CHOOSE a \in S : \A b \in S \ {a} : key_lt(a, b)
         IN  <<m>> \o sort_keys(S \ {m})

\* the rows of one group
group_rows(d, keys, key) ==
    {i \in 1..Len(d) : \A k \in 1..Len(keys) : d[i][keys[k]] = key[k]}

\* groupby(keys)[col].nunique(): the distinct present values of col per group
groupby_nunique(d, keys, col) ==
    LET ks == sort_keys(group_keys(d, keys))
    IN  [n \in 1..Len(ks) |->
            [key |-> ks[n],
             count |-> Cardinality({d[i][col] :
                          i \in {j \in group_rows(d, keys, ks[n]) : ~isna(d[j][col])}})]]

\* groupby(keys)[col].count(): the rows with a present col per group
groupby_count(d, keys, col) ==
    LET ks == sort_keys(group_keys(d, keys))
    IN  [n \in 1..Len(ks) |->
            [key |-> ks[n],
             count |-> Cardinality({j \in group_rows(d, keys, ks[n]) : ~isna(d[j][col])})]]

\* the distinct cells of a column, a missing one included, in the order of
\* their first appearance
RECURSIVE distinct_cells(_)
distinct_cells(cells) ==
    IF Len(cells) = 0 THEN <<>>
    ELSE LET before == distinct_cells(SubSeq(cells, 1, Len(cells) - 1))
             x == cells[Len(cells)]
         IN  IF \E i \in 1..Len(before) : before[i] = x THEN before
             ELSE Append(before, x)

\* the rows counted per cell of col, before value_counts orders them
cell_counts(d, col) ==
    LET u == distinct_cells([i \in 1..Len(d) |-> d[i][col]])
    IN  [n \in 1..Len(u) |->
            [key |-> <<u[n]>>,
             count |-> Cardinality({i \in 1..Len(d) : d[i][col] = u[n]})]]

\* the one-to-one arrangements of 1..n
Perms(n) == {q \in [1..n -> 1..n] : \A i, j \in 1..n : q[i] = q[j] => i = j}

\* sort_values(ascending=False) with the default kind "quicksort", which is
\* not stable: every arrangement by falling count, the rows of equal count
\* in any order
sort_values_desc(t) ==
    {[i \in 1..Len(t) |-> t[q[i]]] :
        q \in {r \in Perms(Len(t)) :
                 \A i \in 1..(Len(t) - 1) : t[r[i]].count >= t[r[i + 1]].count}}

\* the arrangement by falling count that keeps rows of equal count in the
\* order they had
stable_desc(t) ==
    CHOOSE u \in sort_values_desc(t) :
        \E q \in Perms(Len(t)) :
            /\ u = [i \in 1..Len(t) |-> t[q[i]]]
            /\ \A i \in 1..(Len(t) - 1) :
                  t[q[i]].count = t[q[i + 1]].count => q[i] < q[i + 1]

\* value_counts(dropna=False).sort_index(): the rows by rising key, the
\* missing key last
sort_index(t) ==
    LET present == {t[i].key : i \in {j \in 1..Len(t) : ~isna(t[j].key[1])}}
        ks == sort_keys(present)
            \o (IF \E i \in 1..Len(t) : isna(t[i].key[1]) THEN <<(<<Null>>)>> ELSE <<>>)
    IN  [n \in 1..Len(ks) |-> CHOOSE r \in {t[i] : i \in 1..Len(t)} : r.key = ks[n]]

\* head(n): the first n rows, all of them when there are fewer
head(t, n) == SubSeq(t, 1, IF n < Len(t) THEN n ELSE Len(t))

\* the sum of the counts of a table
RECURSIVE sum_counts(_)
sum_counts(t) ==
    IF Len(t) = 0 THEN 0 ELSE t[1].count + sum_counts(Tail(t))

----------------------------------------------------------------------------
(* Percentages and widgets of the chart sections.                          *)

\* groups of a table of counts drawn for a direct call
MaxGroups == 3
\* largest count of one group in a direct call
MaxCount == 6

\* the percentage of a division by zero: not a number
NaN == 0 - 1

\* round(count / total * 100, 2) as a number of hundredths: the nearest
\* hundredth, a half to the even neighbour
round2(count, total) ==
    LET q == (count * 10000) \div total
        r == (count * 10000) % total
    IN  IF 2 * r < total THEN q
        ELSE IF 2 * r > total THEN q + 1
        ELSE IF q % 2 = 0 THEN q ELSE q + 1

\* variant: round(count / total * 100, 1)
round1(count, total) ==
    LET q == (count * 1000) \div total
        r == (count * 1000) % total
    IN  10 * (IF 2 * r < total THEN q
              ELSE IF 2 * r > total THEN q + 1
              ELSE IF q % 2 = 0 THEN q ELSE q + 1)

\* lines 844-845, 915-916, 1069-1070: the total is not tested; 0 / 0 is NaN
percentage_by_division(t) ==
    IF sum_counts(t) = 0 THEN [i \in 1..Len(t) |-> NaN]
    ELSE [i \in 1..Len(t) |-> round2(t[i].count, sum_counts(t))]

\* variant: the department percentage without the test of line 282
percentage_without_test(t) == percentage_by_division(t)

\* variant: the percentages rounded to one decimal
percentage_one_decimal(t) ==
    IF sum_counts(t) = 0 THEN [i \in 1..Len(t) |-> 0]
    ELSE [i \in 1..Len(t) |-> round1(t[i].count, sum_counts(t))]

\* lines 280-286 and 356-361: 0 for every row when the total is 0
percentage(t) ==
    IF sum_counts(t) = 0 THEN [i \in 1..Len(t) |-> 0]
    ELSE [i \in 1..Len(t) |-> round2(t[i].count, sum_counts(t))]

\* the arguments of a slider fit: min_value < max_value and value between
slider_fits(min_value, max_value, value) ==
    min_value < max_value /\ min_value <= value /\ value <= max_value

\* st.slider(min_value, max_value, value): what the call can give.  With
\* fitting arguments it is a value of the range (the ends and the initial
\* value are drawn).  With arguments that do not fit, the outcome depends
\* on the Streamlit version: StreamlitAPIException is raised, or the range
\* is widened until it holds value.
slider(min_value, max_value, value) ==
    LET lo == Min({min_value, max_value, value})
        hi == Max({min_value, max_value, value})
    IN  {[raised |-> FALSE, value |-> n] : n \in {lo, value, hi}}
        \cup (IF slider_fits(min_value, max_value, value) THEN {}
              ELSE {[raised |-> TRUE, value |-> value]})

\* what a section renders when its guard fails
Warning(section) == [name |-> section, status |-> "warning"]

\* what is left of a section that raised an exception
Raised(section, error) == [name |-> section, status |-> "fault", error |-> error]

\* what is left of a section whose slider raised an exception; config is
\* <<min_value, max_value, value>> of the call
SliderRaised(section, config) ==
    [name |-> section, status |-> "fault", error |-> "StreamlitAPIException",
     slider |-> config]

\* a table of counts with its optional percentage column
Counts(section, t, show_pct, pct) ==
    [name |-> section, status |-> "shown", table |-> t, show_pct |-> show_pct,
     percentage |-> IF show_pct THEN pct ELSE <<>>]

----------------------------------------------------------------------------
(* Inputs of the direct calls of categorize_programme.                     *)

\* the programme names of the end-to-end example
ExampleNames ==
  <<
    <<"B","a","c","h","e","l","o","r"," ","o","f"," ","N","u","r","s","i","n","g">>,
    <<"B","S","c"," ","C","o","m","p","u","t","e","r"," ","S","c","i","e","n","c","e">>,
    <<"D","i","p","l","o","m","a"," ","i","n"," ","A","g","r","i","b","u","s","i","n","e","s","s">>,
    <<"B","a","c","h","e","l","o","r"," ","o","f"," ","L","a","w","s">>,
    <<"B","S","c"," ","N","u","r","s","i","n","g">>
  >>

\* words from which programme names are composed
Vocabulary ==
  <<
    <<"n","u","t","r","i","t","i","o","n">>,
    <<"E","n","g","i","n","e","e","r","i","n","g">>,
    <<"A","g","r","i","b","u","s","i","n","e","s","s">>,
    <<"f","o","o","d">>,
    <<"C","l","i","m","a","t","e">>,
    <<"L","A","W">>,
    <<"o","f">>,
    <<"B","S","c">>,
    <<"N","u","r","s","i","n","g">>,
    <<"s","t","u","d","i","e","s">>,
    <<"I","T">>,
    <<"x","y","z">>
  >>

\* the words ws[1], ..., ws[n] joined by single blanks
RECURSIVE join_words(_)
join_words(ws) ==
    IF Len(ws) = 0 THEN <<>>
    ELSE IF Len(ws) = 1 THEN ws[1]
    ELSE ws[1] \o <<" ">> \o join_words(Tail(ws))

\* the sequences over S of length 1..n
SeqsUpTo(S, n) == UNION {[1..k -> S] : k \in 1..n}

Phrases == {join_words(ws) : ws \in SeqsUpTo({Vocabulary[i] : i \in 1..Len(Vocabulary)}, MaxWords)}

AllKeywords == UNION {{mapping[i].keywords[j] : j \in 1..Len(mapping[i].keywords)} : i \in 1..Len(mapping)}

ProgrammeNames == Phrases \cup AllKeywords \cup {ExampleNames[i] : i \in 1..Len(ExampleNames)}

ClassifierInputs ==
    {Str(s) : s \in ProgrammeNames}
    \cup {Null, BoolV(TRUE), BoolV(FALSE)}
    \cup {IntV(n) : n \in (0 - MaxNum)..MaxNum}
    \cup {FloatV(n, d) : n \in 0..MaxNum, d \in {0, 5}}

----------------------------------------------------------------------------
(* The state of a run.                                                     *)

NoFile == [ext |-> "none", columns |-> {}, rows |-> <<>>]
NoSelection == [f \in FilterFieldSet |-> {}]

\* no section has been evaluated yet
Nothing == [name |-> "none", status |-> "none"]

\* the KPI variables before lines 707-747 have assigned them
Unbound == [status |-> "unbound"]

\* nothing uploaded, nothing computed
Idle ==
    /\ uploaded_file = NoFile
    /\ df = <<>>
    /\ columns = {}
    /\ selection = NoSelection
    /\ filtered_df = <<>>
    /\ selected_days = <<>>
    /\ locals = {}
    /\ rendered = Nothing
    /\ kpis = Unbound

RunVars == <<uploaded_file, df, columns, selection, filtered_df, selected_days, locals, rendered,
             kpis>>

----------------------------------------------------------------------------
(* Direct calls of categorize_programme.                                   *)

InitClassify ==
    /\ pc = "categorize"
    /\ arg \in ClassifierInputs
    /\ ret = Null
    /\ Idle

CallCategorize ==
    /\ pc = "categorize"
    /\ ret' = categorize_programme(arg)
    /\ pc' = "categorized"
    /\ UNCHANGED <<arg, RunVars>>

NextClassify == CallCategorize

SpecClassify == InitClassify /\ [][NextClassify]_vars

----------------------------------------------------------------------------
(* Direct applications of the application_day parsing to one cell.         *)

DayAlphabet == {"D", "y", " ", "0", "1", "2", "3"}

ExampleDays ==
  <<
    <<"D","a","y"," ","1">>,
    <<"d","a","y"," ","2">>,
    <<"D","3">>,
    <<"b","o","g","u","s">>
  >>

DayCells ==
    {Str(s) : s \in SeqsUpTo(DayAlphabet, MaxCellLen)}
    \cup {Str(ExampleDays[i]) : i \in 1..Len(ExampleDays)}
    \cup {Null}
    \cup {IntV(n) : n \in 0..MaxNum}
    \cup {FloatV(n, d) : n \in 0..MaxNum, d \in {0, 5}}

InitDay ==
    /\ pc = "parse_day"
    /\ arg \in DayCells
    /\ ret = Str(<<>>)
    /\ Idle

ParseDay ==
    /\ pc = "parse_day"
    /\ ret' = parse_application_day(arg)
    /\ pc' = "parsed_day"
    /\ UNCHANGED <<arg, RunVars>>

NextDay == ParseDay

SpecDay == InitDay /\ [][NextDay]_vars

----------------------------------------------------------------------------
(* Direct calls of sidebar_multiselect on one column.  A column read from  *)
(* a spreadsheet can hold text and numbers side by side.                   *)

\* the cells of the column: text, numbers and missing values
OptionCells ==
    {Null,
     Str(<<"1">>), IntV(1), IntV(10), Str(<<"2">>),
     Str(<<"B">>), Str(<<"a">>)}

\* the tables of a call: the column is there with at most MaxRows cells,
\* or the table has another column only
OptionTables ==
    {[columns |-> {"institution_sponsor_id"},
      rows |-> [i \in 1..Len(cells) |-> [c \in {"institution_sponsor_id"} |-> cells[i]]]] :
        cells \in UNION {[1..k -> OptionCells] : k \in 0..MaxRows}}
    \cup
    {[columns |-> {"programme_name"},
      rows |-> [i \in 1..k |-> [c \in {"programme_name"} |-> Null]]] : k \in 0..MaxRows}

InitOptions ==
    /\ pc = "multiselect"
    /\ arg \in OptionTables
    /\ ret = <<>>
    /\ Idle

CallMultiselect ==
    /\ pc = "multiselect"
    /\ ret' = multiselect_options(arg.rows, arg.columns, "institution_sponsor_id")
    /\ pc' = "options"
    /\ UNCHANGED <<arg, RunVars>>

NextOptions == CallMultiselect

SpecOptions == InitOptions /\ [][NextOptions]_vars

----------------------------------------------------------------------------
(* Direct calls of the percentage transform of lines 280-286 on a table of *)
(* counts.                                                                 *)

\* the tables of a call: at most MaxGroups groups of at most MaxCount each
CountTables ==
    UNION {{[i \in 1..k |-> [key |-> <<IntV(i)>>, count |-> c[i]]] : c \in [1..k -> 0..MaxCount]} :
             k \in 0..MaxGroups}

InitPercent ==
    /\ pc = "percentage"
    /\ arg \in CountTables
    /\ ret = <<>>
    /\ Idle

CallPercentage ==
    /\ pc = "percentage"
    /\ ret' = percentage(arg)
    /\ pc' = "percentages"
    /\ UNCHANGED <<arg, RunVars>>

NextPercent == CallPercentage

SpecPercent == InitPercent /\ [][NextPercent]_vars

----------------------------------------------------------------------------
(* The headers of the uploaded table: the test for the required columns    *)
(* of lines 139-145 and the cleaning of the column names of lines 151-157, *)
(* applied to the header row of a file.                                    *)

\* the largest number of columns of a header row
MaxHeaders == 2

\* str.strip(): the blanks at both ends removed
RECURSIVE strip(_)
strip(s) ==
    IF Len(s) = 0 THEN s
    ELSE IF s[1] = " " THEN strip(Tail(s))
    ELSE IF s[Len(s)] = " " THEN strip(SubSeq(s, 1, Len(s) - 1))
    ELSE s

\* str.replace(old, new) for a one-character old
RECURSIVE replace(_, _, _)
replace(s, old, new) ==
    IF Len(s) = 0 THEN <<>>
    ELSE (IF s[1] = old THEN new ELSE <<s[1]>>) \o replace(Tail(s), old, new)

\* \w of a regular expression: a letter, a digit or the underscore
is_word_char(c) ==
    \/ index_in(DigitChars, c) > 0
    \/ index_in(UpperChars, c) > 0
    \/ index_in(LowerChars, c) > 0
    \/ c = "_"

\* str.replace(r"[^\w_]", "", regex=True)
RECURSIVE remove_special(_)
remove_special(s) ==
    IF Len(s) = 0 THEN <<>>
    ELSE (IF is_word_char(s[1]) THEN <<s[1]>> ELSE <<>>) \o remove_special(Tail(s))

\* lines 151-157: one column name cleaned
clean_column_name(header) ==
    remove_special(
        replace(replace(lower(strip(header)), " ", <<"_">>),
                "#", <<"n","u","m","b","e","r">>))

\* line 140
required_cols ==
    {<<"p","r","o","g","r","a","m","m","e","_","n","a","m","e">>,
     <<"i","n","s","t","i","t","u","t","i","o","n","_","n","a","m","e">>,
     <<"n","u","m","b","e","r","_","s","t","u","d","e","n","t","_","i","d">>}

\* line 141: not required_cols.intersection(set(df.columns))
none_required(names) ==
    required_cols \cap {names[i] : i \in 1..Len(names)} = {}

\* header texts as they stand in the first row of a file
HeaderTexts ==
    {<<"p","r","o","g","r","a","m","m","e","_","n","a","m","e">>,
     <<"P","r","o","g","r","a","m","m","e"," ","N","a","m","e">>,
     <<" ","p","r","o","g","r","a","m","m","e","_","n","a","m","e"," ">>,
     <<"P","R","O","G","R","A","M","M","E","_","N","A","M","E">>,
     <<"i","n","s","t","i","t","u","t","i","o","n","_","n","a","m","e">>,
     <<"I","n","s","t","i","t","u","t","i","o","n"," ","N","a","m","e">>,
     <<"#"," ","S","t","u","d","e","n","t"," ","I","D">>,
     <<"A","p","p","l","i","c","a","t","i","o","n"," ","D","a","y">>,
     <<"M","e","a","n"," ","G","r","a","d","e"," ","(","I","D",")">>,
     <<"s","p","o","n","s","o","r">>}

\* the header rows: up to MaxHeaders different texts
HeaderRows ==
    {h \in UNION {[1..k -> HeaderTexts] : k \in 1..MaxHeaders} :
        \A i, j \in 1..Len(h) : h[i] = h[j] => i = j}

InitHeaders ==
    /\ pc = "read"
    /\ arg \in HeaderRows
    /\ ret = Null
    /\ Idle

\* lines 139-145: the warning is decided on the columns as they were read
CheckRequiredCols ==
    /\ pc = "read"
    /\ ret' = [warned |-> none_required(arg), columns |-> arg]
    /\ pc' = "checked"
    /\ UNCHANGED <<arg, RunVars>>

\* lines 151-157: the column names are cleaned
CleanColumnNames ==
    /\ pc = "checked"
    /\ ret' = [ret EXCEPT !.columns = [i \in 1..Len(arg) |-> clean_column_name(arg[i])]]
    /\ pc' = "cleaned"
    /\ UNCHANGED <<arg, RunVars>>

NextHeaders == CheckRequiredCols \/ CleanColumnNames

SpecHeaders == InitHeaders /\ [][NextHeaders]_vars

----------------------------------------------------------------------------
(* One run of the script on an uploaded table.  The headers of the         *)
(* uploaded tables are canonical names already (lower case, no blanks),    *)
(* which the cleaning of lines 151-157 leaves as they are.                 *)

\* cells of the generated tables
BScNursing == Str(<<"B","S","c"," ","N","u","r","s","i","n","g">>)
Diploma == Str(<<"D","i","p","l","o","m","a">>)
Day1 == Str(<<"D","a","y"," ","1">>)
Day2 == Str(<<"d","a","y"," ","2">>)
Public == Str(<<"P","u","b","l","i","c">>)
Private == Str(<<"P","r","i","v","a","t","e">>)
Verified == Str(<<"V","e","r","i","f","i","e","d">>)
Pending == Str(<<"P","e","n","d","i","n","g">>)
Maseno == Str(<<"M","a","s","e","n","o">>)
Egerton == Str(<<"E","g","e","r","t","o","n">>)

\* the families of generated tables of a run: for each column of a family,
\* the cells the column is filled from
ProgrammeDays ==
    [programme_name |-> {BScNursing, Diploma, Null},
     application_day |-> {Day1, Null}]

SponsorDays ==
    [institution_sponsor_id |-> {Public, Private},
     application_day |-> {Day1, Day2, Null},
     number_student_id |-> {IntV(1)}]

SponsorStages ==
    [institution_sponsor_id |-> {Public, Private, Null},
     application_stage_id |-> {Verified, Pending}]

Families == {ProgrammeDays, SponsorDays, SponsorStages}

\* the families of the tables with student numbers
SponsorStudents ==
    [institution_sponsor_id |-> {Public, Private},
     number_student_id |-> {IntV(1), IntV(2), Null}]

InstitutionStudents ==
    [institution_name |-> {Maseno, Egerton},
     number_student_id |-> {IntV(1), IntV(2), Null}]

ProgrammeDemand ==
    [programme_name |-> {BScNursing, Diploma},
     application_day |-> {Day1, Day2},
     number_student_id |-> {IntV(1), IntV(2)}]

ReportFamilies == {SponsorStudents, InstitutionStudents, ProgrammeDemand}

\* the rows of a family
RowsOver(family) ==
    {r \in [DOMAIN family -> UNION {family[c] : c \in DOMAIN family}] :
        \A c \in DOMAIN family : r[c] \in family[c]}

\* the .csv tables of a family with at most n rows
Tables(family, n) ==
    {[ext |-> "csv", columns |-> DOMAIN family, rows |-> r] :
        r \in UNION {[1..k -> RowsOver(family)] : k \in 0..n}}

\* the table of the end-to-end example: five programme names
ExampleProgrammes ==
    [ext |-> "csv", columns |-> {"programme_name"},
     rows |-> [i \in 1..Len(ExampleNames) |-> [c \in {"programme_name"} |-> Str(ExampleNames[i])]]]

\* the table of the end-to-end example: four application days
ExampleDayColumn ==
    [ext |-> "xlsx", columns |-> {"application_day"},
     rows |-> [i \in 1..Len(ExampleDays) |-> [c \in {"application_day"} |-> Str(ExampleDays[i])]]]

\* a file whose name ends neither in .csv nor in .xlsx
UnsupportedFile ==
    [ext |-> "txt", columns |-> {"programme_name"},
     rows |-> <<[c \in {"programme_name"} |-> Null]>>]

\* a .csv file of zero bytes: read_csv raises EmptyDataError
EmptyFile ==
    [ext |-> "csv", columns |-> {}, rows |-> <<>>, error |-> "EmptyDataError"]

\* a .xlsx file that is no workbook: read_excel raises BadZipFile
CorruptFile ==
    [ext |-> "xlsx", columns |-> {}, rows |-> <<>>, error |-> "BadZipFile"]

\* the files that cannot be read
UnreadableFiles == {EmptyFile, CorruptFile}

\* a table with four institutions, one of them with two students, and with
\* the grade, cycle and stage of each application
ExampleInstitutions ==
    [ext |-> "csv",
     columns |-> {"institution_name", "number_student_id", "mean_grade_id",
                  "placement_cycle_id", "application_stage_id"},
     rows |-> <<[institution_name |-> Str(<<"M","a","s","e","n","o">>), number_student_id |-> IntV(1),
                 mean_grade_id |-> Str(<<"A">>), placement_cycle_id |-> IntV(2024),
                 application_stage_id |-> Verified],
                [institution_name |-> Str(<<"E","g","e","r","t","o","n">>), number_student_id |-> IntV(1),
                 mean_grade_id |-> Str(<<"B">>), placement_cycle_id |-> IntV(2024),
                 application_stage_id |-> Verified],
                [institution_name |-> Str(<<"E","g","e","r","t","o","n">>), number_student_id |-> IntV(2),
                 mean_grade_id |-> Str(<<"A">>), placement_cycle_id |-> IntV(2024),
                 application_stage_id |-> Verified],
                [institution_name |-> Str(<<"M","o","i">>), number_student_id |-> IntV(1),
                 mean_grade_id |-> Null, placement_cycle_id |-> IntV(2024),
                 application_stage_id |-> Verified],
                [institution_name |-> Str(<<"K","i","s","i","i">>), number_student_id |-> IntV(1),
                 mean_grade_id |-> Str(<<"B">>), placement_cycle_id |-> IntV(2024),
                 application_stage_id |-> Verified]>>]

\* a workbook whose programme_type_id column holds the text "1", the
\* numbers 1 and 2 and an empty cell
ExampleTypes ==
    [ext |-> "xlsx", columns |-> {"programme_type_id", "number_student_id"},
     rows |-> <<[programme_type_id |-> Str(<<"1">>), number_student_id |-> IntV(1)],
                [programme_type_id |-> IntV(2), number_student_id |-> IntV(2)],
                [programme_type_id |-> IntV(1), number_student_id |-> IntV(3)],
                [programme_type_id |-> Null, number_student_id |-> IntV(4)]>>]

\* a workbook whose programme_type_id column holds date cells
ExampleDates ==
    [ext |-> "xlsx", columns |-> {"programme_type_id", "number_student_id"},
     rows |-> <<[programme_type_id |-> DateV(<<"2","0","2","4","-","0","1","-","0","1">>),
                 number_student_id |-> IntV(1)],
                [programme_type_id |-> DateV(<<"2","0","2","4","-","0","9","-","0","1">>),
                 number_student_id |-> IntV(2)]>>]

\* a table with four programmes of one department over two days
ExampleDemand ==
    [ext |-> "csv", columns |-> {"programme_name", "application_day", "number_student_id"},
     rows |-> <<[programme_name |-> Str(<<"S","u","r","g","e","r","y">>), application_day |-> Day1,
                 number_student_id |-> IntV(1)],
                [programme_name |-> Str(<<"N","u","r","s","i","n","g">>), application_day |-> Day1,
                 number_student_id |-> IntV(1)],
                [programme_name |-> Str(<<"N","u","r","s","i","n","g">>), application_day |-> Day1,
                 number_student_id |-> IntV(2)],
                [programme_name |-> Str(<<"P","h","a","r","m","a","c","y">>), application_day |-> Day2,
                 number_student_id |-> IntV(1)],
                [programme_name |-> Str(<<"D","e","n","t","a","l">>), application_day |-> Day1,
                 number_student_id |-> IntV(1)]>>]

Uploads ==
    UNION {Tables(family, MaxRows) : family \in Families}
    \cup {ExampleProgrammes, ExampleDayColumn, UnsupportedFile, NoFile}
    \cup UnreadableFiles

\* the uploads of the runs that are checked for their charts and KPIs
ReportUploads ==
    UNION {Tables(family, MaxRows) : family \in ReportFamilies}
    \cup {ExampleInstitutions, ExampleDemand, ExampleTypes, ExampleDates, UnsupportedFile, NoFile}
    \cup UnreadableFiles

Init ==
    /\ pc = "start"
    /\ arg = Null
    /\ ret = Null
    /\ uploaded_file \in Uploads
    /\ df = <<>>
    /\ columns = {}
    /\ selection = NoSelection
    /\ filtered_df = <<>>
    /\ selected_days = <<>>
    /\ locals = {}
    /\ rendered = Nothing
    /\ kpis = Unbound

\* lines 123-130 and 146-148: read_csv or read_excel raises an exception
read_raises(file) == "error" \in DOMAIN file

\* variant: only the name of the file is tested
load_stops_on_format_only(file) == file.ext \notin {"csv", "xlsx"}

\* lines 121-148: st.stop() is called for a name that ends neither in .csv
\* nor in .xlsx, for a file whose reading raises and for a table without rows
load_stops(file) ==
    \/ file.ext \notin {"csv", "xlsx"}
    \/ read_raises(file)
    \/ Len(file.rows) = 0

\* lines 119-148: the file is read; an unsupported or empty file stops the run
LoadFile ==
    /\ pc = "start"
    /\ uploaded_file # NoFile
    /\ IF load_stops(uploaded_file)
       THEN /\ pc' = "stopped"
            /\ UNCHANGED <<df, columns, locals>>
       ELSE /\ pc' = "loaded"
            /\ df' = uploaded_file.rows
            /\ columns' = uploaded_file.columns
            /\ locals' = {"df"}
    /\ UNCHANGED <<arg, ret, uploaded_file, selection, filtered_df, selected_days, rendered, kpis>>

\* lines 79-81 and 119: nothing is uploaded, the block of lines 120-257 is
\* skipped and neither df nor filtered_df is bound
SkipUpload ==
    /\ pc = "start"
    /\ uploaded_file = NoFile
    /\ pc' = "filtered"
    /\ UNCHANGED <<arg, ret, RunVars>>

\* lines 150-178: application_day parsed, department derived, duplicates dropped
Normalize ==
    /\ pc = "loaded"
    /\ df' = drop_duplicates(add_department(columns, parse_day_column(columns, df)))
    /\ columns' = columns \cup {"department"}
    /\ pc' = "normalized"
    /\ UNCHANGED <<arg, ret, uploaded_file, selection, filtered_df, selected_days, locals, rendered, kpis>>

\* variant: the filter is applied to df itself (no copy), the view is df
ApplyFiltersInPlace ==
    /\ pc = "normalized"
    /\ \E selected_sponsors \in sidebar_multiselect(df, columns, "institution_sponsor_id"),
          selected_stages \in sidebar_multiselect(df, columns, "application_stage_id"),
          selected_types \in sidebar_multiselect(df, columns, "programme_type_id"),
          selected_programmes \in sidebar_multiselect(df, columns, "programme_name"),
          selected_institutions \in sidebar_multiselect(df, columns, "institution_name"),
          selected_grades \in sidebar_multiselect(df, columns, "mean_grade_id"),
          selected_cycles \in sidebar_multiselect(df, columns, "placement_cycle_id"),
          selected_departments \in sidebar_multiselect(df, columns, "department") :
            /\ selection' =
                 [institution_sponsor_id |-> selected_sponsors,
                  application_stage_id |-> selected_stages,
                  programme_type_id |-> selected_types,
                  programme_name |-> selected_programmes,
                  institution_name |-> selected_institutions,
                  mean_grade_id |-> selected_grades,
                  placement_cycle_id |-> selected_cycles,
                  department |-> selected_departments]
            /\ df' = apply_filters(df, selection')
            /\ filtered_df' = df'
    /\ pc' = "filtered"
    /\ locals' = {"df", "filtered_df"}
    /\ UNCHANGED <<arg, ret, uploaded_file, columns, selected_days, rendered, kpis>>

\* lines 193-251: the eight multiselects return their values, the view is built
ApplyFilters ==
    /\ pc = "normalized"
    /\ \E selected_sponsors \in sidebar_multiselect(df, columns, "institution_sponsor_id"),
          selected_stages \in sidebar_multiselect(df, columns, "application_stage_id"),
          selected_types \in sidebar_multiselect(df, columns, "programme_type_id"),
          selected_programmes \in sidebar_multiselect(df, columns, "programme_name"),
          selected_institutions \in sidebar_multiselect(df, columns, "institution_name"),
          selected_grades \in sidebar_multiselect(df, columns, "mean_grade_id"),
          selected_cycles \in sidebar_multiselect(df, columns, "placement_cycle_id"),
          selected_departments \in sidebar_multiselect(df, columns, "department") :
            /\ selection' =
                 [institution_sponsor_id |-> selected_sponsors,
                  application_stage_id |-> selected_stages,
                  programme_type_id |-> selected_types,
                  programme_name |-> selected_programmes,
                  institution_name |-> selected_institutions,
                  mean_grade_id |-> selected_grades,
                  placement_cycle_id |-> selected_cycles,
                  department |-> selected_departments]
            /\ filtered_df' = apply_filters(df, selection')
    /\ pc' = "filtered"
    /\ locals' = {"df", "filtered_df"}
    /\ UNCHANGED <<arg, ret, uploaded_file, df, columns, selected_days, rendered, kpis>>

\* 'filtered_df' in locals() / "df" in locals()
in_locals(name) == name \in locals

\* lines 263-334, Chart 1: the records of the view per department
Chart1 ==
    /\ pc = "filtered"
    /\ IF uploaded_file # NoFile /\ "department" \in columns
       THEN \E show_dept_pct \in BOOLEAN,
               dept_counts \in sort_values_desc(cell_counts(filtered_df, "department")) :
                rendered' = Counts("chart1", dept_counts, show_dept_pct, percentage(dept_counts))
       ELSE rendered' = Warning("chart1")
    /\ pc' = "chart1"
    /\ UNCHANGED <<arg, ret, uploaded_file, df, columns, selection, filtered_df, selected_days, locals, kpis>>

\* lines 343-421, Chart 2: the distinct students per sponsorship
Chart2 ==
    /\ pc = "chart1"
    /\ IF /\ uploaded_file # NoFile
          /\ "institution_sponsor_id" \in columns
          /\ "number_student_id" \in columns
       THEN \E show_sponsor_pct \in BOOLEAN,
               sponsor_counts \in sort_values_desc(
                   groupby_nunique(filtered_df, <<"institution_sponsor_id">>, "number_student_id")) :
                rendered' = Counts("chart2", sponsor_counts, show_sponsor_pct,
                                   percentage(sponsor_counts))
       ELSE rendered' = Warning("chart2")
    /\ pc' = "chart2"
    /\ UNCHANGED <<arg, ret, uploaded_file, df, columns, selection, filtered_df, selected_days, locals, kpis>>

\* the rows of a table of counts whose key starts with the cell dep
RECURSIVE rows_of(_, _)
rows_of(t, dep) ==
    IF Len(t) = 0 THEN <<>>
    ELSE (IF t[1].key[1] = dep THEN <<t[1]>> ELSE <<>>) \o rows_of(Tail(t), dep)

\* the departments of a table of counts, rising
departments_of(t) == sort_keys({<<t[i].key[1]>> : i \in 1..Len(t)})

\* line 438: min(50, the largest number of programmes of one department);
\* the maximum of nothing is NaN, and min(50, NaN) is 50
max_top_n_of(student_counts) ==
    IF Len(student_counts) = 0 THEN 50
    ELSE Min({50, Max({Len(rows_of(student_counts, student_counts[i].key[1])) :
                          i \in 1..Len(student_counts)})})

\* DataFrame.nlargest(n, keep="first"): the n rows of largest count, rows
\* of equal count in the order they had
nlargest(t, n) == head(stable_desc(t), n)

\* lines 448-452: nlargest(top_n) within each department, the departments
\* in rising order
RECURSIVE top_per_department(_, _, _)
top_per_department(student_counts, deps, n) ==
    IF Len(deps) = 0 THEN <<>>
    ELSE nlargest(rows_of(student_counts, deps[1][1]), n)
         \o top_per_department(student_counts, Tail(deps), n)

\* lines 423-503, Chart 3: the top programmes of each department; the
\* department multiselect of the chart is left at its default
Chart3 ==
    /\ pc = "chart2"
    /\ IF /\ uploaded_file # NoFile
          /\ "programme_name" \in columns
          /\ "number_student_id" \in columns
       THEN LET student_counts ==
                    groupby_nunique(filtered_df, <<"department", "programme_name">>,
                                    "number_student_id")
                max_top_n == max_top_n_of(student_counts)
            IN  \E top_n \in slider(3, IF max_top_n >= 3 THEN max_top_n ELSE 3,
                                    Min({20, max_top_n})) :
                    IF top_n.raised
                    THEN /\ rendered' = SliderRaised("chart3", <<3, IF max_top_n >= 3 THEN max_top_n ELSE 3, Min({20, max_top_n})>>)
                         /\ pc' = "fault"
                    ELSE /\ rendered' =
                              [name |-> "chart3", status |-> "shown",
                               slider |-> <<3, IF max_top_n >= 3 THEN max_top_n ELSE 3, Min({20, max_top_n})>>,
                               groups |-> student_counts, top_n |-> top_n.value,
                               table |-> top_per_department(student_counts,
                                            departments_of(student_counts), top_n.value)]
                         /\ pc' = "chart3"
       ELSE /\ rendered' = Warning("chart3")
            /\ pc' = "chart3"
    /\ UNCHANGED <<arg, ret, uploaded_file, df, columns, selection, filtered_df, selected_days, locals, kpis>>

\* lines 505-575, Chart 4: the distinct students per day, overall or per
\* department; number_student_id is selected without a test for the column
Chart4 ==
    /\ pc = "chart3"
    /\ IF /\ in_locals("filtered_df")
          /\ "application_day" \in columns
          /\ day_values(filtered_df) # {}
       THEN \E trend_group \in {"Overall", "Department"} :
                IF "number_student_id" \notin columns
                THEN /\ rendered' = Raised("chart4", "KeyError")
                     /\ pc' = "fault"
                ELSE /\ rendered' =
                          [name |-> "chart4", status |-> "shown",
                           table |-> IF trend_group = "Department" /\ "department" \in columns
                                     THEN groupby_nunique(filtered_df,
                                              <<"application_day", "department">>,
                                              "number_student_id")
                                     ELSE groupby_nunique(filtered_df, <<"application_day">>,
                                              "number_student_id")]
                     /\ pc' = "chart4"
       ELSE /\ rendered' = Warning("chart4")
            /\ pc' = "chart4"
    /\ UNCHANGED <<arg, ret, uploaded_file, df, columns, selection, filtered_df, selected_days, locals, kpis>>

\* lines 579-611: the day slider returns a range within [min_day, max_day]
DayFilter ==
    /\ pc = "chart4"
    /\ in_locals("df")
    /\ has_valid_days(df, columns)
    /\ \E lo \in Min(day_values(df))..Max(day_values(df)),
          hi \in Min(day_values(df))..Max(day_values(df)) :
            /\ lo <= hi
            /\ selected_days' = <<lo, hi>>
            /\ filtered_df' = day_filter(filtered_df, lo, hi)
    /\ pc' = "day_filtered"
    /\ UNCHANGED <<arg, ret, uploaded_file, df, columns, selection, locals, rendered, kpis>>

\* the distinct present cells of a column (Series.nunique counts them)
present_cells(d, col) == {d[i][col] : i \in {j \in 1..Len(d) : ~isna(d[j][col])}}

\* the count of the pair (day, programme) in the grouped counts, 0 when the
\* pair is not there (reindex with fill_value=0)
count_or_zero(grouped, key) ==
    IF \E i \in 1..Len(grouped) : grouped[i].key = key
    THEN (CHOOSE r \in {grouped[i] : i \in 1..Len(grouped)} : r.key = key).count
    ELSE 0

\* variant: reindex keeps the pairs of the grouped counts only
reindex_sparse(grouped, all_days, all_programmes) == grouped

\* lines 647-652: one row for each pair of MultiIndex.from_product, the days
\* outside, the programmes inside
reindex(grouped, all_days, all_programmes) ==
    [n \in 1..(Len(all_days) * Len(all_programmes)) |->
        LET day == all_days[((n - 1) \div Len(all_programmes)) + 1]
            programme == all_programmes[((n - 1) % Len(all_programmes)) + 1]
        IN  [key |-> <<day[1], programme[1]>>,
             count |-> count_or_zero(grouped, <<day[1], programme[1]>>)]]

\* the rows of the view whose programme_name is one of the keys
RECURSIVE isin_keys(_, _)
isin_keys(d, top) ==
    IF Len(d) = 0 THEN <<>>
    ELSE (IF \E i \in 1..Len(top) : top[i][1] = d[1]["programme_name"] THEN <<d[1]>> ELSE <<>>)
         \o isin_keys(Tail(d), top)

\* lines 614-687: the animated chart of the top programmes per day
AnimatedChart ==
    /\ pc = "day_filtered"
    /\ IF /\ "programme_name" \in columns
          /\ "number_student_id" \in columns
          /\ "application_day" \in columns
          /\ day_values(filtered_df) # {}
          /\ Len(filtered_df) > 0
       THEN LET nunique == Cardinality(present_cells(filtered_df, "programme_name"))
                totals == groupby_count(filtered_df, <<"programme_name">>, "number_student_id")
            IN  \E top_n_animated \in slider(3, Min({30, nunique}), Min({10, nunique})),
                   ordered \in sort_values_desc(totals) :
                    IF top_n_animated.raised
                    THEN /\ rendered' = SliderRaised("animated", <<3, Min({30, nunique}), Min({10, nunique})>>)
                         /\ pc' = "fault"
                    ELSE LET top == head(ordered, top_n_animated.value)
                             top_programmes_animated == [i \in 1..Len(top) |-> top[i].key]
                             grouped == groupby_count(
                                            isin_keys(filtered_df, top_programmes_animated),
                                            <<"application_day", "programme_name">>,
                                            "number_student_id")
                             all_days == sort_keys({<<x>> : x \in present_cells(filtered_df,
                                                                       "application_day")})
                         IN  /\ rendered' =
                                   [name |-> "animated", status |-> "shown",
                                    slider |-> <<3, Min({30, nunique}), Min({10, nunique})>>,
                                    groups |-> totals, top_n |-> top_n_animated.value,
                                    top |-> top, grouped |-> grouped,
                                    all_days |-> all_days,
                                    all_programmes |-> top_programmes_animated,
                                    table |-> reindex(grouped, all_days,
                                                      top_programmes_animated)]
                             /\ pc' = "animated"
       ELSE /\ rendered' = Warning("animated")
            /\ pc' = "animated"
    /\ UNCHANGED <<arg, ret, uploaded_file, df, columns, selection, filtered_df, selected_days,
                   locals, kpis>>

\* lines 688-689: no valid application_day, the view stays as it is
NoDayFilter ==
    /\ pc = "chart4"
    /\ ~(in_locals("df") /\ has_valid_days(df, columns))
    /\ pc' = "no_day_filter"
    /\ UNCHANGED <<arg, ret, uploaded_file, df, columns, selection, filtered_df, selected_days,
                   locals, rendered, kpis>>

\* Series.dropna(): the rows with a present cell in col
dropna(d, col) == boolean_index(d, [i \in 1..Len(d) |-> ~isna(d[i][col])], 1)

\* lines 703-705, top_n(series, n): value_counts(dropna=True).head(n), the
\* lists it can give; [] when the column is not in the table
top_n(d, cols, col, n) ==
    IF col \in cols
    THEN {head(o, n) : o \in sort_values_desc(cell_counts(dropna(d, col), col))}
    ELSE {<<>>}

\* Series.nunique() of a column, 0 when the column is not in the table
nunique_or_zero(d, cols, col) ==
    IF col \in cols THEN Cardinality(present_cells(d, col)) ELSE 0

\* lines 738-747: the KPI variables of an empty view.  A list of top values
\* that is empty is shown as "N/A", and so is the period <<>>; the average
\* is the pair (sum, number of programmes)
EmptyKPIs ==
    [status |-> "bound",
     total_students |-> 0, total_institutions |-> 0, total_programmes |-> 0,
     top_days |-> <<>>, top_depts |-> <<>>, top_progs |-> <<>>, top_insts |-> <<>>,
     avg_students_per_programme |-> <<0, 1>>,
     app_period |-> <<>>]

\* lines 691-763: the summary KPIs, in the else branch of line 688
SummaryKPIs ==
    /\ pc = "no_day_filter"
    /\ IF in_locals("filtered_df") /\ Len(filtered_df) > 0
       THEN \E top_days \in top_n(filtered_df, columns, "application_day", 2),
               top_depts \in top_n(filtered_df, columns, "department", 2),
               top_progs \in top_n(filtered_df, columns, "programme_name", 2),
               top_insts \in top_n(filtered_df, columns, "institution_name", 2) :
                kpis' =
                    [status |-> "bound",
                     total_students |-> nunique_or_zero(filtered_df, columns, "number_student_id"),
                     total_institutions |-> nunique_or_zero(filtered_df, columns, "institution_name"),
                     total_programmes |-> nunique_or_zero(filtered_df, columns, "programme_name"),
                     top_days |-> top_days, top_depts |-> top_depts,
                     top_progs |-> top_progs, top_insts |-> top_insts,
                     avg_students_per_programme |->
                        IF "programme_name" \in columns /\ "number_student_id" \in columns
                        THEN LET t == groupby_nunique(filtered_df, <<"programme_name">>,
                                                      "number_student_id")
                             IN  <<sum_counts(t), Len(t)>>
                        ELSE <<0, 1>>,
                     app_period |->
                        IF "application_day" \in columns /\ day_values(filtered_df) # {}
                        THEN <<Min(day_values(filtered_df)), Max(day_values(filtered_df))>>
                        ELSE <<>>]
       ELSE kpis' = EmptyKPIs
    /\ rendered' = [name |-> "kpis", status |-> "shown"]
    /\ pc' = "kpis"
    /\ UNCHANGED <<arg, ret, uploaded_file, df, columns, selection, filtered_df, selected_days,
                   locals>>

\* lines 765-820: the summary table, in the same else branch; the columns
\* multiselect is left at its default
SummaryTable ==
    /\ pc = "kpis"
    /\ IF in_locals("filtered_df")
       THEN LET max_rows == Min({200, Len(filtered_df)})
            IN  \E num_rows \in slider(5, IF max_rows > 5 THEN max_rows ELSE 5,
                                       Min({50, max_rows})) :
                    IF num_rows.raised
                    THEN /\ rendered' = SliderRaised("summary", <<5, IF max_rows > 5 THEN max_rows ELSE 5, Min({50, max_rows})>>)
                         /\ pc' = "fault"
                    ELSE /\ rendered' = [name |-> "summary", status |-> "shown",
                                         slider |-> <<5, IF max_rows > 5 THEN max_rows ELSE 5, Min({50, max_rows})>>,
                                         num_rows |-> num_rows.value,
                                         table |-> head(filtered_df, num_rows.value)]
                         /\ pc' = "summary"
       ELSE /\ rendered' = Warning("summary")
            /\ pc' = "summary"
    /\ UNCHANGED <<arg, ret, uploaded_file, df, columns, selection, filtered_df, selected_days,
                   locals, kpis>>

\* a chart of the rows per value of one column (charts 5, 6 and 8)
distribution(section, col) ==
    IF col \in columns /\ present_cells(filtered_df, col) # {}
    THEN {Counts(section, sort_index(cell_counts(filtered_df, col)), show_pct,
                 percentage_by_division(sort_index(cell_counts(filtered_df, col)))) :
            show_pct \in BOOLEAN}
    ELSE {Warning(section)}

\* lines 824-893, Chart 5: the rows per mean grade
Chart5 ==
    /\ pc \in {"animated", "summary"}
    /\ IF in_locals("filtered_df")
       THEN rendered' \in distribution("chart5", "mean_grade_id")
       ELSE rendered' = Warning("chart5")
    /\ pc' = "chart5"
    /\ UNCHANGED <<arg, ret, uploaded_file, df, columns, selection, filtered_df, selected_days,
                   locals, kpis>>

\* lines 895-965, Chart 6: the rows per placement cycle; the guard reads
\* filtered_df without asking whether the name is bound
Chart6 ==
    /\ pc = "chart5"
    /\ IF in_locals("filtered_df")
       THEN /\ rendered' \in distribution("chart6", "placement_cycle_id")
            /\ pc' = "chart6"
       ELSE /\ rendered' = Raised("chart6", "NameError")
            /\ pc' = "fault"
    /\ UNCHANGED <<arg, ret, uploaded_file, df, columns, selection, filtered_df, selected_days,
                   locals, kpis>>

\* lines 967-1047, Chart 7: the institutions with the most distinct students
Chart7 ==
    /\ pc = "chart6"
    /\ IF /\ in_locals("filtered_df")
          /\ "institution_name" \in columns
          /\ "number_student_id" \in columns
          /\ present_cells(filtered_df, "institution_name") # {}
       THEN LET max_top_n == Min({30, Cardinality(present_cells(filtered_df, "institution_name"))})
                counts == groupby_nunique(filtered_df, <<"institution_name">>, "number_student_id")
            IN  \E top_n_institutions \in slider(3, IF max_top_n >= 3 THEN max_top_n ELSE 3,
                                                 Min({10, max_top_n})),
                   ordered \in sort_values_desc(counts) :
                    IF top_n_institutions.raised
                    THEN /\ rendered' = SliderRaised("chart7", <<3, IF max_top_n >= 3 THEN max_top_n ELSE 3, Min({10, max_top_n})>>)
                         /\ pc' = "fault"
                    ELSE /\ rendered' = [name |-> "chart7", status |-> "shown",
                                         slider |-> <<3, IF max_top_n >= 3 THEN max_top_n ELSE 3, Min({10, max_top_n})>>,
                                         groups |-> counts,
                                         top_n |-> top_n_institutions.value,
                                         table |-> head(ordered, top_n_institutions.value)]
                         /\ pc' = "chart7"
       ELSE /\ rendered' = Warning("chart7")
            /\ pc' = "chart7"
    /\ UNCHANGED <<arg, ret, uploaded_file, df, columns, selection, filtered_df, selected_days,
                   locals, kpis>>

\* lines 1049-1119, Chart 8: the rows per application stage
Chart8 ==
    /\ pc = "chart7"
    /\ IF in_locals("filtered_df")
       THEN rendered' \in distribution("chart8", "application_stage_id")
       ELSE rendered' = Warning("chart8")
    /\ pc' = "done"
    /\ UNCHANGED <<arg, ret, uploaded_file, df, columns, selection, filtered_df, selected_days,
                   locals, kpis>>

\* an interaction: the script runs again from the top on the same file
Rerun ==
    /\ pc \in {"stopped", "fault", "done"}
    /\ pc' = "start"
    /\ df' = <<>>
    /\ columns' = {}
    /\ selection' = NoSelection
    /\ filtered_df' = <<>>
    /\ selected_days' = <<>>
    /\ locals' = {}
    /\ rendered' = Nothing
    /\ kpis' = Unbound
    /\ UNCHANGED <<arg, ret, uploaded_file>>

Next ==
    \/ LoadFile \/ SkipUpload \/ Normalize \/ ApplyFilters
    \/ Chart1 \/ Chart2 \/ Chart3 \/ Chart4
    \/ DayFilter \/ AnimatedChart
    \/ NoDayFilter \/ SummaryKPIs \/ SummaryTable
    \/ Chart5 \/ Chart6 \/ Chart7 \/ Chart8
    \/ Rerun

Spec == Init /\ [][Next]_vars

\* the runs on the tables with student numbers
InitReport ==
    /\ pc = "start"
    /\ arg = Null
    /\ ret = Null
    /\ uploaded_file \in ReportUploads
    /\ df = <<>>
    /\ columns = {}
    /\ selection = NoSelection
    /\ filtered_df = <<>>
    /\ selected_days = <<>>
    /\ locals = {}
    /\ rendered = Nothing
    /\ kpis = Unbound

SpecReport == InitReport /\ [][Next]_vars

----------------------------------------------------------------------------
(* Properties of categorize_programme, checked under SpecClassify.         *)

HealthSciences == <<"H","e","a","l","t","h"," ","S","c","i","e","n","c","e","s">>
kw_nutrition == <<"n","u","t","r","i","t","i","o","n">>
kw_engineering == <<"e","n","g","i","n","e","e","r","i","n","g">>

\* the pairs of the taxonomy with a keyword occurring in name
MatchingPairs(name) ==
    {i \in 1..Len(mapping) :
        \E j \in 1..Len(mapping[i].keywords) : contains(name, mapping[i].keywords[j])}

\* the label of the earliest-declared matching pair, "Other" when there is none
FirstMatchLabel(name) ==
    IF MatchingPairs(name) = {} THEN Other
    ELSE mapping[CHOOSE i \in MatchingPairs(name) :
                    \A j \in MatchingPairs(name) : i <= j].dept

\* C1: categorize_programme returns the label of the first pair, in declared
\* order, that has a keyword occurring in the lower-cased name, and "Other"
\* when no pair matches; a name with "nutrition" and "engineering" gets the
\* label of the earlier pair, Health Sciences.
C1_FirstMatchWins ==
    (pc = "categorized" /\ ~isna(arg)) =>
        /\ ret = Str(FirstMatchLabel(lower(str(arg))))
        /\ (contains(lower(str(arg)), kw_nutrition) /\ contains(lower(str(arg)), kw_engineering))
              => ret = Str(HealthSciences)

\* a name with the Engineering keyword before the Health Sciences keyword
C1_Witness ==
    /\ pc = "categorized"
    /\ arg = Str(<<"E","n","g","i","n","e","e","r","i","n","g"," ","n","u","t","r","i","t","i","o","n">>)
    /\ ret = Str(HealthSciences)

\* C4: categorize_programme returns "Other" for every null input and for
\* every input that is a number or a boolean.
C4_NonStringIsOther ==
    (pc = "categorized" /\ arg.t \in {"null", "int", "float", "bool"}) => ret = Str(Other)

C4_Witness ==
    /\ pc = "categorized"
    /\ arg = BoolV(TRUE)
    /\ ret = Str(Other)

----------------------------------------------------------------------------
(* Properties of the application_day parsing, checked under SpecDay.       *)

\* the positions of the digits of s
DigitPositions(s) == {i \in 1..Len(s) : is_digit(s[i])}

\* the first maximal run of digits of s, <<>> when s has no digit
FirstDigitRun(s) ==
    IF DigitPositions(s) = {} THEN <<>>
    ELSE LET a == CHOOSE i \in DigitPositions(s) : \A j \in DigitPositions(s) : i <= j
             b == CHOOSE i \in a..Len(s) :
                      /\ \A k \in a..i : is_digit(s[k])
                      /\ (i = Len(s) \/ ~is_digit(s[i + 1]))
         IN  SubSeq(s, a, b)

RECURSIVE Pow10(_)
Pow10(n) == IF n = 0 THEN 1 ELSE 10 * Pow10(n - 1)

RECURSIVE SumTo(_, _)
SumTo(f, n) == IF n = 0 THEN 0 ELSE f[n] + SumTo(f, n - 1)

\* the value of a decimal numeral, by place values
DecimalValue(ds) ==
    SumTo([i \in 1..Len(ds) |-> digit_value(ds[i]) * Pow10(Len(ds) - i)], Len(ds))

\* C5: every application_day cell becomes the integer given by the first run
\* of digits of its string form, and null when the string form has no digit;
\* "Day 1", "day 2", "D3", "bogus" become 1, 2, 3, null and a null cell
\* becomes null.
C5_FirstDigitRun ==
    pc = "parsed_day" =>
        /\ ret = IF FirstDigitRun(str(arg)) = <<>> THEN Null
                 ELSE IntV(DecimalValue(FirstDigitRun(str(arg))))
        /\ arg = Str(ExampleDays[1]) => ret = IntV(1)
        /\ arg = Str(ExampleDays[2]) => ret = IntV(2)
        /\ arg = Str(ExampleDays[3]) => ret = IntV(3)
        /\ arg = Str(ExampleDays[4]) => ret = Null
        /\ arg = Null => ret = Null

\* a cell with two runs of digits, the first of two digits
C5_Witness ==
    /\ pc = "parsed_day"
    /\ arg = Str(<<"1", "2", " ", "3">>)
    /\ ret = IntV(12)

----------------------------------------------------------------------------
(* Properties of a run, checked under Spec.                                *)

\* the positions of a run after the view has been built
ViewPositions ==
    {"filtered", "chart1", "chart2", "chart3", "chart4", "day_filtered", "animated",
     "no_day_filter", "kpis", "summary", "chart5", "chart6", "chart7", "done", "fault"}

Normalized == pc \in {"normalized"} \cup ViewPositions

\* the values of a column, row by row
Column(d, col) == [i \in 1..Len(d) |-> d[i][col]]

\* the number of rows of d with value v in column col
CountRows(d, col, v) == Cardinality({i \in 1..Len(d) : d[i][col] = v})

\* the records of a table, as a set
RowSet(d) == {d[i] : i \in 1..Len(d)}

\* the k-th smallest element of a set of numbers
KthSmallest(S, k) == CHOOSE i \in S : Cardinality({j \in S : j <= i}) = k

\* the rows of d at the positions S, in the order of d
RowsAt(d, S) == [k \in 1..Cardinality(S) |-> d[KthSmallest(S, k)]]

\* v consists of some of the rows of d, in the order of d
IsSubsequence(v, d) == \E S \in SUBSET (1..Len(d)) : v = RowsAt(d, S)

ICTTech == <<"I","C","T"," ","/"," ","T","e","c","h">>
Agriculture == <<"A","g","r","i","c","u","l","t","u","r","e">>
LawHumanities == <<"L","a","w"," ","&"," ","H","u","m","a","n","i","t","i","e","s">>

\* C2: the five example programme names are classified as Health Sciences,
\* ICT / Tech, Agriculture, Law & Humanities, Health Sciences, and the counts
\* per department are 2, 1, 1, 1.
C2_ExampleDepartments ==
    (pc = "normalized" /\ uploaded_file = ExampleProgrammes) =>
        /\ Column(df, "department") =
             <<Str(HealthSciences), Str(ICTTech), Str(Agriculture),
               Str(LawHumanities), Str(HealthSciences)>>
        /\ CountRows(df, "department", Str(HealthSciences)) = 2
        /\ CountRows(df, "department", Str(ICTTech)) = 1
        /\ CountRows(df, "department", Str(Agriculture)) = 1
        /\ CountRows(df, "department", Str(LawHumanities)) = 1

\* C3: after normalization every record has a department that is not null
\* and is a taxonomy label or "Other"; it is "Other" for every record when
\* the table has no programme_name column.
C3_DepartmentTotal ==
    Normalized =>
        \A i \in 1..Len(df) :
            /\ ~isna(df[i]["department"])
            /\ df[i]["department"].t = "str"
            /\ df[i]["department"].v \in Labels \cup {Other}
            /\ "programme_name" \notin uploaded_file.columns
                  => df[i]["department"] = Str(Other)

\* a Dataset with a null programme name next to a classified one
C3_Witness ==
    /\ pc = "normalized"
    /\ "programme_name" \in columns
    /\ \E i \in 1..Len(df) :
          isna(df[i]["programme_name"]) /\ df[i]["department"] = Str(Other)
    /\ \E i \in 1..Len(df) : df[i]["department"] = Str(HealthSciences)

\* the table of line 175, before the duplicates are dropped
Classified ==
    add_department(uploaded_file.columns,
                   parse_day_column(uploaded_file.columns, uploaded_file.rows))

\* the positions of the rows that equal no earlier row
FirstOccurrences(t) == {i \in 1..Len(t) : \A j \in 1..(i - 1) : t[j] # t[i]}

\* C6: the Dataset has no two equal records; of each group of identical
\* rows exactly the first is kept, and the kept rows are in input order.
C6_FirstOccurrencesKept ==
    pc = "normalized" =>
        /\ \A i, j \in 1..Len(df) : df[i] = df[j] => i = j
        /\ df = RowsAt(Classified, FirstOccurrences(Classified))

\* the third row repeats the first, a different row lies between them
C6_Witness ==
    /\ pc = "normalized"
    /\ Len(uploaded_file.rows) = 3
    /\ uploaded_file.rows[1] = uploaded_file.rows[3]
    /\ uploaded_file.rows[1] # uploaded_file.rows[2]
    /\ Len(df) = 2

\* C7: when every field has an empty set of picked values, the view built
\* by the filters has exactly the records of the Dataset.
C7_EmptySelectionKeepsAll ==
    (pc = "filtered" /\ \A f \in FilterFieldSet : selection[f] = {}) =>
        filtered_df = df

\* nothing picked although there were values to pick
C7_Witness ==
    /\ pc = "filtered"
    /\ selection = NoSelection
    /\ Len(df) >= 2
    /\ "institution_sponsor_id" \in columns
    /\ options(df, "institution_sponsor_id") # {}
    /\ filtered_df = df

\* the selection restricted to one field
OnlyField(f) == [h \in FilterFieldSet |-> IF h = f THEN selection[f] ELSE {}]

\* C8: with exactly two fields f and g restricted, the records of the view
\* are the records that are in the view for f alone and in the view for g
\* alone.
C8_Conjunction ==
    pc = "filtered" =>
        \A f, g \in FilterFieldSet :
            (/\ f # g
             /\ selection[f] # {}
             /\ selection[g] # {}
             /\ \A h \in FilterFieldSet \ {f, g} : selection[h] = {})
            => RowSet(filtered_df) =
                 RowSet(apply_filters(df, OnlyField(f)))
                 \cap RowSet(apply_filters(df, OnlyField(g)))

\* sponsor and stage restricted, each alone keeping more than both together
C8_Witness ==
    /\ pc = "filtered"
    /\ selection["institution_sponsor_id"] # {}
    /\ selection["application_stage_id"] # {}
    /\ Len(filtered_df) = 1
    /\ Len(apply_filters(df, OnlyField("institution_sponsor_id"))) = 2
    /\ Len(apply_filters(df, OnlyField("application_stage_id"))) = 2

\* a record passes every set-based restriction
PassesSelection(r) ==
    \A f \in FilterFieldSet : selection[f] # {} => str(r[f]) \in selection[f]

\* a record has a day within the selected range, ends included
InSelectedDays(r) ==
    /\ ~isna(r["application_day"])
    /\ selected_days[1] <= r["application_day"].v
    /\ r["application_day"].v <= selected_days[2]

PassesAll(r) == PassesSelection(r) /\ InSelectedDays(r)

\* C9: with a day range selected, the view consists of exactly the records
\* that pass every set-based restriction and have
\* min_day <= application_day <= max_day.
C9_DayRangeInclusive ==
    pc = "day_filtered" => filtered_df = SelectSeq(df, PassesAll)

\* a restricted field, and records on both ends of the selected range
C9_Witness ==
    /\ pc = "day_filtered"
    /\ selected_days[1] < selected_days[2]
    /\ selection["institution_sponsor_id"] # {}
    /\ \E i \in 1..Len(filtered_df) : filtered_df[i]["application_day"] = IntV(selected_days[1])
    /\ \E i \in 1..Len(filtered_df) : filtered_df[i]["application_day"] = IntV(selected_days[2])
    /\ Len(filtered_df) < Len(df)

\* a step of the filters or of the day range leaves df and its columns alone
DatasetKept ==
    pc \in ({"normalized"} \cup ViewPositions) \ {"done", "fault"} =>
        df' = df /\ columns' = columns

\* C10: applying the filters and the day range leaves the Dataset as it is,
\* and the view consists of records of the Dataset in the Dataset's order.
C10_ViewOfUnchangedDataset ==
    /\ [][DatasetKept]_vars
    /\ [](pc \in ViewPositions => IsSubsequence(filtered_df, df))

\* a view of two records that are not neighbours in the Dataset
C10_Witness ==
    /\ pc = "day_filtered"
    /\ Len(df) = 3
    /\ filtered_df = <<df[1], df[3]>>

----------------------------------------------------------------------------
(* Properties of the options of a multiselect, checked under SpecOptions.  *)

\* the non-null cells of the column of the call
NonNullCells ==
    IF "institution_sponsor_id" \in arg.columns
    THEN {arg.rows[i]["institution_sponsor_id"] :
            i \in {j \in 1..Len(arg.rows) : ~isna(arg.rows[j]["institution_sponsor_id"])}}
    ELSE {}

\* C11: the values offered for a field are exactly the stringified non-null
\* values of the field, in strictly ascending string order (so no value is
\* listed twice), without an entry for null; the list is empty when the
\* field is absent or has no non-null value.
C11_SortedDistinctOptions ==
    pc = "options" =>
        /\ {ret[i] : i \in 1..Len(ret)} = {str(x) : x \in NonNullCells}
        /\ \A i \in 1..(Len(ret) - 1) : str_lt(ret[i], ret[i + 1])
        /\ (NonNullCells = {} => ret = <<>>)

----------------------------------------------------------------------------
(* Properties of the percentages.                                          *)

\* the sections with an optional percentage column
PercentSections == {"chart1", "chart2", "chart5", "chart6", "chart8"}

\* a section has put a table with its percentage column on the page
PercentagesShown ==
    /\ rendered.status = "shown"
    /\ rendered.name \in PercentSections
    /\ rendered.show_pct

\* C12: no percentage column is the result of a division by a zero total:
\* whenever the counts of a rendered table sum to 0, the percentage of every
\* row is 0 (checked under SpecReport).
C12_ZeroTotalGivesZero ==
    PercentagesShown =>
        /\ \A i \in 1..Len(rendered.percentage) : rendered.percentage[i] # NaN
        /\ sum_counts(rendered.table) = 0 =>
              \A i \in 1..Len(rendered.percentage) : rendered.percentage[i] = 0

\* sponsorships whose records all lack a student number: rows, total 0
C12_Witness ==
    /\ PercentagesShown
    /\ rendered.name = "chart2"
    /\ Len(rendered.table) = 2
    /\ sum_counts(rendered.table) = 0
    /\ rendered.percentage = <<0, 0>>

\* the sum of a sequence of numbers
RECURSIVE SumSeq(_)
SumSeq(q) == IF Len(q) = 0 THEN 0 ELSE q[1] + SumSeq(Tail(q))

Abs(x) == IF x < 0 THEN 0 - x ELSE x

\* C13: for a table of counts with total > 0, each percentage is within
\* 0.005 of 100 * count / total, and the percentages sum to 100 within 0.005
\* per group (checked under SpecPercent; percentages in hundredths).
C13_PercentagesSumTo100 ==
    (pc = "percentages" /\ sum_counts(arg) > 0) =>
        /\ Len(ret) = Len(arg)
        /\ \A i \in 1..Len(arg) :
              2 * Abs(ret[i] * sum_counts(arg) - arg[i].count * 10000) <= sum_counts(arg)
        /\ 2 * Abs(SumSeq(ret) - 10000) <= Len(arg)

\* three equal groups: 33.33 each, 99.99 in all
C13_Witness ==
    /\ pc = "percentages"
    /\ Len(arg) = 3
    /\ \A i \in 1..3 : arg[i].count = 1
    /\ ret = <<3333, 3333, 3333>>

----------------------------------------------------------------------------
(* Properties of the Top-N sections, checked under SpecReport.             *)

\* the sections that cut a table of grouped counts to its top N rows
TopNSections == {"chart3", "animated", "chart7"}

\* a Top-N section has put its table on the page
TopNShown == rendered.status = "shown" /\ rendered.name \in TopNSections

\* C14: the N of a Top-N section is at least 1 and at most the number of
\* groups of the view that the section ranks.
C14_TopNWithinGroups ==
    TopNShown => (1 <= rendered.top_n /\ rendered.top_n <= Len(rendered.groups))

\* the position of a row in a table of grouped counts (keys are distinct)
PositionIn(groups, row) == CHOOSE i \in 1..Len(groups) : groups[i] = row

\* result is the top n of groups: its rows are rows of groups, by falling
\* count, no row left out has a larger count than a row taken, and of two
\* rows of equal count the one that comes first in groups is taken first
IsTopN(result, groups, n) ==
    LET taken == {result[i] : i \in 1..Len(result)}
        all == {groups[i] : i \in 1..Len(groups)}
    IN  /\ taken \subseteq all
        /\ Len(result) = (IF n < Len(groups) THEN n ELSE Len(groups))
        /\ Cardinality(taken) = Len(result)
        /\ \A i \in 1..(Len(result) - 1) : result[i].count >= result[i + 1].count
        /\ \A t \in taken : \A g \in all \ taken :
              /\ g.count <= t.count
              /\ g.count = t.count => PositionIn(groups, t) < PositionIn(groups, g)
        /\ \A i \in 1..(Len(result) - 1) :
              result[i].count = result[i + 1].count =>
                  PositionIn(groups, result[i]) < PositionIn(groups, result[i + 1])

\* C15: every Top-N section shows the N groups of largest count, groups of
\* equal count in the order of the grouped input, the earlier ones preferred
\* (for the programmes per department: within each department).
C15_TopNLargestFirstEncountered ==
    TopNShown =>
        CASE rendered.name = "chart7" ->
                IsTopN(rendered.table, rendered.groups, rendered.top_n)
          [] rendered.name = "animated" ->
                IsTopN(rendered.top, rendered.groups, rendered.top_n)
          [] rendered.name = "chart3" ->
                \A i \in 1..Len(rendered.groups) :
                    IsTopN(rows_of(rendered.table, rendered.groups[i].key[1]),
                           rows_of(rendered.groups, rendered.groups[i].key[1]),
                           rendered.top_n)

\* the programmes per department alone, where nlargest does the cut
C15_NLargestKeepsFirst ==
    (TopNShown /\ rendered.name = "chart3") =>
        \A i \in 1..Len(rendered.groups) :
            IsTopN(rows_of(rendered.table, rendered.groups[i].key[1]),
                   rows_of(rendered.groups, rendered.groups[i].key[1]),
                   rendered.top_n)

----------------------------------------------------------------------------
(* Properties of the animated chart, checked under SpecReport.             *)

AnimatedShown == rendered.status = "shown" /\ rendered.name = "animated"

\* the records of the view of one day and one programme that carry a
\* student number
PairCount(day, programme) ==
    Cardinality({i \in 1..Len(filtered_df) :
                    /\ filtered_df[i]["application_day"] = day
                    /\ filtered_df[i]["programme_name"] = programme
                    /\ ~isna(filtered_df[i]["number_student_id"])})

\* C16: the table of the animation has one row for each pair of a day of
\* the view and a selected top programme, |C| x |D| rows in all, days
\* rising; the count of a pair is the number of its records in the view,
\* 0 for a pair without records.
C16_DenseDaySeries ==
    AnimatedShown =>
        LET D == {IntV(d) : d \in day_values(filtered_df)}
            C == {rendered.top[i].key[1] : i \in 1..Len(rendered.top)}
            T == rendered.table
        IN  /\ Len(T) = Cardinality(C) * Cardinality(D)
            /\ {T[i].key : i \in 1..Len(T)} = {<<d, c>> : d \in D, c \in C}
            /\ \A i \in 1..Len(T) : T[i].count = PairCount(T[i].key[1], T[i].key[2])
            /\ \A i \in 1..(Len(T) - 1) : T[i].key[1].v <= T[i + 1].key[1].v

\* four programmes on two days: one pair with two records, three pairs
\* with one, four pairs with none
C16_Witness ==
    /\ AnimatedShown
    /\ rendered.top_n = 4
    /\ Len(rendered.table) = 8
    /\ \E i \in 1..8 : rendered.table[i].count = 2
    /\ Cardinality({i \in 1..8 : rendered.table[i].count = 0}) = 4
    /\ Len(rendered.grouped) = 4

----------------------------------------------------------------------------
(* Properties of the summary KPIs.                                         *)

\* the positions of a run behind the if/else of lines 579-820
BehindDayBlock == {"animated", "summary", "chart5", "chart6", "chart7", "done"}

\* a Dataset was ingested and the run has passed the place of the KPIs
KPIsDue == in_locals("filtered_df") /\ pc \in BehindDayBlock

\* C17: when the view of an ingested Dataset is empty, the run reports the
\* KPIs in their empty state: the three totals and the average 0, the top
\* lists and the application period "N/A".
C17_EmptyViewKPIs ==
    (KPIsDue /\ Len(filtered_df) = 0) => kpis = EmptyKPIs

\* where the KPI section is evaluated, an empty view gives the empty state
C17_EmptyStateWhereEvaluated ==
    (pc = "kpis" /\ Len(filtered_df) = 0) => kpis = EmptyKPIs

\* C18: the KPIs of a run are those of its filtered view: the totals are the
\* numbers of distinct students, institutions and programmes of the view,
\* and when the view has a non-null application_day, the application period
\* is the least and the largest day of the view and the most active day is
\* a day of the view.
C18_KPIsOfTheView ==
    KPIsDue =>
        /\ kpis.status = "bound"
        /\ kpis.total_students = nunique_or_zero(filtered_df, columns, "number_student_id")
        /\ kpis.total_institutions = nunique_or_zero(filtered_df, columns, "institution_name")
        /\ kpis.total_programmes = nunique_or_zero(filtered_df, columns, "programme_name")
        /\ ("application_day" \in columns /\ day_values(filtered_df) # {}) =>
              /\ kpis.app_period = <<Min(day_values(filtered_df)), Max(day_values(filtered_df))>>
              /\ Len(kpis.top_days) > 0
              /\ kpis.top_days[1].key[1].v \in day_values(filtered_df)

\* where the KPI section is evaluated, the totals are those of the view
C18_TotalsWhereEvaluated ==
    pc = "kpis" =>
        /\ kpis.status = "bound"
        /\ kpis.total_students = nunique_or_zero(filtered_df, columns, "number_student_id")
        /\ kpis.total_institutions = nunique_or_zero(filtered_df, columns, "institution_name")
        /\ kpis.total_programmes = nunique_or_zero(filtered_df, columns, "programme_name")
        /\ kpis.app_period = <<>>
        /\ kpis.top_days = <<>>

----------------------------------------------------------------------------
(* Properties of the sections of a run.                                    *)

\* the sections that count distinct values of number_student_id
StudentCountSections == {"chart2", "chart3", "chart4", "animated", "chart7"}

\* C19: for a Dataset without number_student_id, each section that counts
\* distinct students is replaced by a warning and raises no exception, and
\* the KPI of the unique students is 0.
C19_NoStudentNumberNoFault ==
    (in_locals("filtered_df") /\ "number_student_id" \notin columns) =>
        /\ rendered.name \in StudentCountSections => rendered.status = "warning"
        /\ kpis.status = "bound" => kpis.total_students = 0

\* without number_student_id, every such section other than Chart 4 warns
C19_WarningsOutsideChart4 ==
    (in_locals("filtered_df") /\ "number_student_id" \notin columns) =>
        /\ rendered.name \in StudentCountSections \ {"chart4"} =>
               rendered.status = "warning"
        /\ kpis.status = "bound" => kpis.total_students = 0

\* the exceptions raised by the use of a column or a variable that is missing
MissingInputErrors == {"KeyError", "NameError"}

\* C20: the sections fail independently: no section of a run, with or
\* without an ingested Dataset, raises an exception on a missing column or
\* a missing input, so that each later section is still evaluated.
C20_SectionsFailIndependently ==
    rendered.status = "fault" => rendered.error \notin MissingInputErrors

\* a run without a Dataset never gets behind Chart 6
C20_NoDatasetEndsAtChart6 ==
    uploaded_file = NoFile => pc \notin {"chart6", "chart7", "done"}

\* a run without a Dataset raises no exception before Chart 6
C20_NoDatasetWarnsUpToChart5 ==
    (uploaded_file = NoFile /\ rendered.name \notin {"none", "chart6"}) =>
        rendered.status \in {"warning", "shown"}

\* a run without a Dataset ends in the NameError of line 897
C20_NameErrorWithoutDataset ==
    uploaded_file = NoFile /\ rendered = Raised("chart6", "NameError")

----------------------------------------------------------------------------
(* Properties of the loading of the file.                                  *)

\* an input with zero data rows, of an unsupported format or unreadable
BadInput(file) ==
    /\ file # NoFile
    /\ \/ Len(file.rows) = 0
       \/ file.ext \notin {"csv", "xlsx"}
       \/ file \in UnreadableFiles

\* C21: a run on an input with zero data rows, of an unsupported format or
\* that cannot be read ends at the loading of the file: no Dataset is bound,
\* and nothing is normalized, filtered or reported in that run.
C21_BadInputStopsTheRun ==
    BadInput(uploaded_file) =>
        /\ pc \in {"start", "stopped"}
        /\ df = <<>> /\ columns = {} /\ locals = {}
        /\ selection = NoSelection /\ filtered_df = <<>> /\ selected_days = <<>>
        /\ rendered = Nothing /\ kpis = Unbound

\* a run was stopped on a table with a header and no row
C21_Witness ==
    /\ pc = "stopped"
    /\ uploaded_file.ext = "csv"
    /\ uploaded_file.columns # {}
    /\ Len(uploaded_file.rows) = 0

\* the three kinds of input each stop a run
C21_StoppedOnUnsupported == pc = "stopped" /\ uploaded_file = UnsupportedFile
C21_StoppedOnUnreadable == pc = "stopped" /\ uploaded_file = CorruptFile

----------------------------------------------------------------------------
(* Properties of the classification within a run.                          *)

\* the records of the Dataset and, once it is built, of the view
RecordsOfRun ==
    RowSet(df) \cup (IF in_locals("filtered_df") THEN RowSet(filtered_df) ELSE {})

----------------------------------------------------------------------------
(* Properties of the values offered by the sidebar.                        *)

\* v is the text of a cell: the text itself, the decimal numeral of a
\* natural number, "nan" for a missing value
IsTextOf(v, cell) ==
    CASE cell.t = "str" -> v = cell.v
      [] cell.t = "int" ->
            /\ cell.v >= 0
            /\ Len(v) > 0
            /\ \A i \in 1..Len(v) : is_digit(v[i])
            /\ (Len(v) > 1 => v[1] # "0")
            /\ DecimalValue(v) = cell.v
      [] cell.t = "null" -> v = <<"n","a","n">>
      [] cell.t = "date" -> SubSeq(v, 1, Len(cell.v)) = cell.v

\* the values the multiselect of field f offers
Offered(f) ==
    {multiselect_options(df, columns, f)[i] :
        i \in 1..Len(multiselect_options(df, columns, f))}

\* the selection that restricts field f to the value v and no other field
OnlyValue(f, v) == [h \in FilterFieldSet |-> IF h = f THEN {v} ELSE {}]

\* C23: for each field f and each value v offered for f, the view for f
\* restricted to {v} has a record, and its records are exactly the records
\* of the Dataset whose f, as text, is v, in the order of the Dataset; the
\* number 1 and the text "1" are both records of the value "1".
C23_OfferedValueSelectsItsRecords ==
    pc = "filtered" =>
        \A f \in FilterFieldSet : \A v \in Offered(f) :
            selection = OnlyValue(f, v) =>
                /\ Len(filtered_df) > 0
                /\ filtered_df = RowsAt(df, {i \in 1..Len(df) : IsTextOf(v, df[i][f])})

\* the same for the fields whose column is no datetime64 column
C23_TextAndNumbersSelectTheirRecords ==
    pc = "filtered" =>
        \A f \in FilterFieldSet : \A v \in Offered(f) :
            (selection = OnlyValue(f, v) /\ ~is_datetime64(df, f)) =>
                /\ Len(filtered_df) > 0
                /\ filtered_df = RowsAt(df, {i \in 1..Len(df) : IsTextOf(v, df[i][f])})

\* the value "1" was picked and the view has the record with the text "1"
\* and the record with the number 1
C23_TextOneAndNumberOne ==
    /\ pc = "filtered"
    /\ uploaded_file = ExampleTypes
    /\ selection = OnlyValue("programme_type_id", <<"1">>)
    /\ Len(filtered_df) = 2
    /\ filtered_df[1]["programme_type_id"] = Str(<<"1">>)
    /\ filtered_df[2]["programme_type_id"] = IntV(1)

----------------------------------------------------------------------------
(* Properties of the column names, checked under SpecHeaders.              *)

\* C24: the warning about the required columns is given exactly when the
\* cleaned column names contain none of programme_name, institution_name
\* and number_student_id; a header that differs from one of them in case,
\* blanks at the ends or blanks for underscores gives no warning.
C24_WarningOnCanonicalNames ==
    pc = "cleaned" => (ret.warned <=> none_required(ret.columns))

\* the cleaning maps each header that differs from a canonical name in
\* case, blanks at the ends or blanks for underscores to that name
C24_HeadersCleanedToCanonical ==
    pc = "cleaned" =>
        /\ \A i \in 1..Len(arg) :
              lower(replace(strip(arg[i]), " ", <<"_">>)) \in required_cols =>
                  ret.columns[i] = lower(replace(strip(arg[i]), " ", <<"_">>))
        /\ \A i \in 1..Len(arg) : \A j \in 1..Len(ret.columns[i]) :
              /\ is_word_char(ret.columns[i][j])
              /\ index_in(UpperChars, ret.columns[i][j]) = 0

\* a header row was cleaned to the three required names
C24_RequiredNamesReached ==
    /\ pc = "cleaned"
    /\ Len(arg) = 2
    /\ arg[1] = <<"#"," ","S","t","u","d","e","n","t"," ","I","D">>
    /\ ret.columns[1] = <<"n","u","m","b","e","r","_","s","t","u","d","e","n","t","_","i","d">>
    /\ arg[2] = <<"P","r","o","g","r","a","m","m","e"," ","N","a","m","e">>
    /\ ret.columns[2] = <<"p","r","o","g","r","a","m","m","e","_","n","a","m","e">>
    /\ ret.warned

----------------------------------------------------------------------------
(* Properties of the default selection and of the default day range.       *)

\* C25: under the selection the sidebar starts with, all options of every
\* field picked, the view has every record of the Dataset, the records
\* with a missing value in a field included.
C25_DefaultSelectionKeepsAll ==
    (pc = "filtered" /\ in_locals("filtered_df")
        /\ selection = default_selection(df, columns)) =>
            filtered_df = df

\* under the default selection the view has the records without a missing
\* value in the fields whose options are all picked; a field without any
\* present value has no option and restricts nothing
C25_DefaultSelectionDropsMissing ==
    (pc = "filtered" /\ in_locals("filtered_df")
        /\ selection = default_selection(df, columns)
        /\ \A f \in FilterFieldSet \cap columns : ~is_datetime64(df, f)) =>
            filtered_df =
                RowsAt(df, {i \in 1..Len(df) :
                    \A f \in FilterFieldSet \cap columns :
                        (default_all(f) /\ options(df, f) # {}) => ~isna(df[i][f])})

\* the day range the slider starts with: the whole range of the Dataset
DefaultDays == <<Min(day_values(df)), Max(day_values(df))>>

\* C26: with the day range left at [min, max] of the Dataset, the day
\* restriction removes no record: the view is the view of the sidebar
\* selection, the records without application_day included.
C26_DefaultDayRangeKeepsAll ==
    (pc = "day_filtered" /\ selected_days = DefaultDays) =>
        filtered_df = apply_filters(df, selection)

\* with the default day range the view keeps the records with a day and
\* only them
C26_DefaultDayRangeDropsMissing ==
    (pc = "day_filtered" /\ selected_days = DefaultDays) =>
        filtered_df = dropna(apply_filters(df, selection), "application_day")

----------------------------------------------------------------------------
(* Properties of the order of the sections.                                *)

\* the positions at which the row count of the sidebar and Charts 1 to 4
\* have been put out
EarlyOutputs == {"filtered", "chart1", "chart2", "chart3", "chart4"}

\* the positions behind the day restriction
LateOutputs == {"day_filtered", "animated", "chart5", "chart6", "chart7", "done"}

\* the view restricted by the sidebar selection and by the selected days
DayRestrictedView ==
    day_filter(apply_filters(df, selection), selected_days[1], selected_days[2])

\* C27: in a run on a Dataset with application days, each output is
\* computed when the day range has been selected and applied, over the view
\* restricted by the sidebar selection and by the selected day range; the
\* row count of the sidebar and Charts 1 to 4 are among these outputs.
C27_OutputsOverDayRestrictedView ==
    (pc \in EarlyOutputs \cup LateOutputs
        /\ in_locals("filtered_df") /\ has_valid_days(df, columns)) =>
            /\ selected_days # <<>>
            /\ filtered_df = DayRestrictedView

\* the outputs behind the day restriction are over the restricted view
C27_LateOutputsOverDayRestrictedView ==
    (pc \in LateOutputs
        /\ in_locals("filtered_df") /\ has_valid_days(df, columns)) =>
            /\ selected_days # <<>>
            /\ filtered_df = DayRestrictedView

\* Chart 1 has counted a record that the day range of this run removes
C27_ChartOneCountsRemovedRecord ==
    /\ pc = "day_filtered"
    /\ Len(apply_filters(df, selection)) = 3
    /\ Len(filtered_df) = 1
    /\ selected_days = <<2, 2>>

----------------------------------------------------------------------------
(* Properties of the sliders, checked under SpecReport.                    *)

\* the sections with a numeric selector
SliderSections == {"chart3", "animated", "summary", "chart7"}

\* the section just evaluated has called its slider
SliderCalled ==
    rendered.name \in SliderSections /\ rendered.status \in {"shown", "fault"}

\* C28: each slider is called with min_value <= value <= max_value, for
\* every view, the views with one or two groups and with fewer than five
\* rows included.
C28_SliderDefaultsWithinRange ==
    SliderCalled =>
        /\ rendered.slider[1] <= rendered.slider[3]
        /\ rendered.slider[3] <= rendered.slider[2]

\* for a view with at least three groups, and at least five rows, the
\* arguments of the sliders fit
C28_FitsForLargerViews ==
    (SliderCalled /\ rendered.slider[2] > rendered.slider[1]) =>
        /\ rendered.slider[1] <= rendered.slider[3]
        /\ rendered.slider[3] <= rendered.slider[2]

\* a slider was called with arguments that fit
C28_FittingCallReached ==
    /\ SliderCalled
    /\ rendered.name = "chart7"
    /\ rendered.slider = <<3, 4, 4>>

----------------------------------------------------------------------------
(* Properties of the keywords of the taxonomy, checked under SpecClassify. *)

\* the pairs of the taxonomy that list the text k as a keyword
PairsOf(k) ==
    {i \in 1..Len(mapping) :
        \E j \in 1..Len(mapping[i].keywords) : mapping[i].keywords[j] = k}

\* C29: a programme name that is a keyword of a pair of the taxonomy gets
\* the label of that pair, for every pair that lists the keyword.
C29_KeywordSelectsItsDepartment ==
    (pc = "categorized" /\ arg.t = "str") =>
        \A i \in PairsOf(arg.v) : ret = Str(mapping[i].dept)

\* every label of the taxonomy is the label of one of its own keywords
C29_EveryLabelReachable ==
    \A i \in 1..Len(mapping) :
        \E j \in 1..Len(mapping[i].keywords) :
            categorize_programme(Str(mapping[i].keywords[j])) = Str(mapping[i].dept)

\* the keyword "fisheries" of Marine & Fisheries was classified
C29_FisheriesIsAgriculture ==
    /\ pc = "categorized"
    /\ arg = Str(<<"f","i","s","h","e","r","i","e","s">>)
    /\ ret = Str(Agriculture)

====
